---------------------------- MODULE Spec2Model ----------------------------
(***************************************************************************)
(* Model of the Hindsight attribution pipeline (metalliza22/Hindsight):    *)
(*   - HindsightAnalyzer.parse_error_message / _parse_simple_error         *)
(*   - GitAnalyzer.validate_repository / repo / analyze_commits /          *)
(*     prioritize_commits and the scoring helpers                          *)
(*   - HindsightAnalyzer.rank_commits_by_likelihood / identify_root_cause  *)
(*   - IntentExtractor.extract_from_file on the files it reads             *)
(*   - HindsightAnalyzer.analyze_bug and _generate_explanation, with the   *)
(*     explanation generator and the response cache reduced to their       *)
(*     outcomes                                                            *)
(*                                                                         *)
(* Specifications:                                                         *)
(*   SpecParse  parse_error_message on any text of up to MaxLines lines    *)
(*   SpecTrace  parse_error_message on well-formed traces                  *)
(*   SpecGit    validate_repository and analyze_commits on one repository  *)
(*   SpecRank   prioritize_commits, rank_commits_by_likelihood and         *)
(*              identify_root_cause on a list analyze_commits returned     *)
(*   SpecScore  analyze_commits on commits of every age, message and file  *)
(*              list that the score distinguishes                          *)
(*   SpecExtract extract_from_file on one path and the files around it     *)
(*   SpecHash   context_hash on two BugContexts                            *)
(*   SpecCache  the CacheManager API on one cache directory                *)
(*   SpecApi    generate_explanation and the retry loop of _call_api       *)
(*   Spec       analyze_bug, called up to MaxRuns times                    *)
(*                                                                         *)
(* Text is modelled line by line.  A line is a record that says which of   *)
(* the four regular expressions of hindsight_analyzer.py it matches and    *)
(* what their groups capture.  A path is the sequence of its characters,   *)
(* so that str.endswith and Path.name are computed, not assumed.  Scores   *)
(* are in hundredths (0.15 is 15).                                         *)
(***************************************************************************)
EXTENDS Integers, Sequences, FiniteSets, TLC

VARIABLES
    raw,         \* the error text handed to the parser: a sequence of lines
    errorInfo,   \* the ErrorInfo in hand (parsed, or built by the caller)
    raised,      \* the exception that left the last call ("" when none)
    pc,          \* position of the caller
    repoKind,    \* what is at repo_path: "missing", "notrepo", "bare", "valid"
    history,     \* the commits reachable from HEAD, most recent first
    repoObj,     \* GitAnalyzer._repo: "None" or "Repo"
    heap,        \* the CommitInfo objects made by the last analyze_commits
    commits,     \* the list of CommitInfo the caller holds: indices of heap
    ret,         \* the last call of the GitAnalyzer or ranking API, its result
    nPrio,       \* prioritize_commits calls made on the list held
    disk,        \* the files intent extraction reads: path -> what is there
    contexts,    \* the BugContexts a caller of context_hash holds
    hashes,      \* the context_hash calls made: [of, value]
    clock,       \* time.time(), in seconds
    api,         \* the _call_api call in progress
    cacheOn,     \* config.cache.enabled: the analyzer has a CacheManager
    cache,       \* the entries of the ai_responses cache: [key, data]
    runs,        \* analyze_bug calls started
    calls,       \* what the running analyze_bug has invoked so far
    limitations, \* its limitations list
    relevant,    \* its relevant_commits: indices of heap
    intent,      \* its combined IntentInfo
    rootCause,   \* its root_cause
    explanation, \* its explanation
    result       \* the AnalysisResult it returned

---------------------------------------------------------------------------
(* Bounds *)

\* longest input text, in lines, of the parser specification
MaxLines == 4
\* most frames of a well-formed trace
MaxFrames == 2
\* most commits in the history
MaxDepth == 3
\* largest limit asked of analyze_commits
MaxLimit == 3
\* longest source file, in lines, of the extraction specification
MaxSrcLines == 2
\* most context_hash calls
MaxHashCalls == 2
\* longest time the cache is watched, in ttls
MaxTicks == 2
\* most prioritize_commits calls on one list
MaxPrioritize == 2
\* most analyze_bug calls on one analyzer
MaxRuns == 2

---------------------------------------------------------------------------
(* Paths *)

pA  == <<"a">>
pB  == <<"b">>
pXA == <<"x", "a">>
pDA == <<"d", "/", "a">>
pEA == <<"e", "/", "a">>
NoPath == <<>>

---------------------------------------------------------------------------
(* Lines of text *)

\* k: "hdr"    Traceback (most recent call last):
\*    "ihdr"   the same text after leading white space
\*    "frame"    File "<file>", line <num>, in <fn>
\*    "err"    <cat>: <msg>, cat ending in Error, Exception or Warning
\*    "simple" <cat>: <msg>, any other dotted identifier
\*    "text"   anything else that is not blank
\*    "blank"  empty or white space only
\* file: the path of a frame line, or a *.py token another line mentions
\* big:  the numeral of a frame line has more digits than int() converts
Line(k, file, num, big, fn, cat, msg) ==
    [k |-> k, file |-> file, num |-> num, big |-> big, fn |-> fn,
     cat |-> cat, msg |-> msg]

Hdr == Line("hdr", NoPath, 0, FALSE, "", "", "")
IHdr == Line("ihdr", NoPath, 0, FALSE, "", "", "")
Frame(file, num, fn) == Line("frame", file, num, FALSE, fn, "", "")
BigFrame(file, fn) == Line("frame", file, 0, TRUE, fn, "", "")
Err(cat, msg) == Line("err", NoPath, 0, FALSE, "", cat, msg)
Simple(cat, msg) == Line("simple", NoPath, 0, FALSE, "", cat, msg)
Text(file) == Line("text", file, 0, FALSE, "", "", "")
Blank == Line("blank", NoPath, 0, FALSE, "", "", "")


---------------------------------------------------------------------------
(* The regular expressions of hindsight_analyzer.py, on one line *)

\* TRACEBACK_HEADER.match(line): anchored at the start of the line, which is
\* not stripped, so the header text after white space does not match
MatchesHeader(l) == l.k = "hdr"

\* FRAME_PATTERN.match(line): \s* admits any indentation
MatchesFrame(l) == l.k = "frame"

\* ERROR_LINE_PATTERN.match(line.strip())
MatchesErrorLine(l) == l.k = "err"

\* SIMPLE_ERROR_PATTERN.match(line.strip()): matches whatever the stricter
\* pattern matches, with the same groups
MatchesSimple(l) == l.k \in {"err", "simple"}

\* line.strip(): the text of the line without surrounding white space
StripLine(l) == IF l.k = "ihdr" THEN Hdr ELSE l

\* int(frame_match.group(2)): raises ValueError past the digit limit
IntRaises(l) == l.big

\* re.findall(r'["\']?([/\w.-]+\.py)["\']?', line)
FileRefs(l) == IF l.file = NoPath THEN <<>> ELSE <<l.file>>

---------------------------------------------------------------------------
(* str.strip().splitlines() *)

RECURSIVE DropLeadingBlank(_)
DropLeadingBlank(s) ==
    IF s = <<>> THEN <<>>
    ELSE IF Head(s).k = "blank" THEN DropLeadingBlank(Tail(s)) ELSE s

RECURSIVE DropTrailingBlank(_)
DropTrailingBlank(s) ==
    IF s = <<>> THEN <<>>
    ELSE IF s[Len(s)].k = "blank"
         THEN DropTrailingBlank(SubSeq(s, 1, Len(s) - 1)) ELSE s

\* error_message.strip().splitlines(): blank lines at either end go, and the
\* first line left loses its indentation
StripSplit(text) ==
    LET t == DropTrailingBlank(DropLeadingBlank(text))
    IN  IF t = <<>> THEN <<>> ELSE <<StripLine(t[1])>> \o Tail(t)

\* list(dict.fromkeys(xs)): first occurrences, in order
RECURSIVE Dedupe(_)
Dedupe(xs) ==
    IF xs = <<>> THEN <<>>
    ELSE LET init == Dedupe(SubSeq(xs, 1, Len(xs) - 1))
             x == xs[Len(xs)]
         IN  IF \E i \in 1..Len(init) : init[i] = x THEN init
             ELSE Append(init, x)

RECURSIVE Concat(_)
Concat(ss) == IF ss = <<>> THEN <<>> ELSE Head(ss) \o Concat(Tail(ss))

---------------------------------------------------------------------------
(* ErrorInfo and StackFrame (models.py) *)

\* message: either a regex group (grp) or the whole stripped text (txt)
GroupMsg(m) == [grp |-> m, txt |-> <<>>]
TextMsg(text) == [grp |-> "", txt |-> StripSplit(text)]

StackFrame(file, num, fn, ctx) ==
    [file_path |-> file, line_number |-> num, function_name |-> fn,
     code_context |-> ctx]

ErrorInfo(etype, msg, frames, files, nums, text) ==
    [error_type |-> etype, message |-> msg, stack_trace |-> frames,
     affected_files |-> files, line_numbers |-> nums, raw_traceback |-> text]

NoErrorInfo == ErrorInfo("", GroupMsg(""), <<>>, <<>>, <<>>, <<>>)

FramePaths(frames) == [i \in 1..Len(frames) |-> frames[i].file_path]
FrameLines(frames) == [i \in 1..Len(frames) |-> frames[i].line_number]

---------------------------------------------------------------------------
(* HindsightAnalyzer.parse_error_message *)

\* index of the first header line, 0 when the while loop ends without break
RECURSIVE HeaderIndexFrom(_, _)
HeaderIndexFrom(lines, i) ==
    IF i > Len(lines) THEN 0
    ELSE IF MatchesHeader(lines[i]) THEN i ELSE HeaderIndexFrom(lines, i + 1)

\* first line matching either error pattern, 0 when none
RECURSIVE FirstErrorFrom(_, _)
FirstErrorFrom(lines, i) ==
    IF i > Len(lines) THEN 0
    ELSE IF MatchesErrorLine(lines[i]) \/ MatchesSimple(lines[i]) THEN i
         ELSE FirstErrorFrom(lines, i + 1)

\* a variant that takes a following frame line as context too
HasContextAnyLine(lines, i) == i + 1 <= Len(lines)

\* the code_context of a frame at line i: the stripped next line when there
\* is one and it is not a frame line ("" is <<>>)
HasContext(lines, i) == i + 1 <= Len(lines) /\ ~MatchesFrame(lines[i + 1])
ContextOf(lines, i) ==
    IF HasContext(lines, i) /\ lines[i + 1].k # "blank"
    THEN <<StripLine(lines[i + 1])>> ELSE <<>>

ScanStart ==
    [frames |-> <<>>, etype |-> "", msg |-> "", exc |-> "",
     ctxAt |-> {}, errAt |-> 0]

\* the frame loop, from line i; ctxAt and errAt record which lines were
\* taken as code context and as the error line
RECURSIVE ScanFrames(_, _, _)
ScanFrames(lines, i, st) ==
    IF i > Len(lines) THEN st
    ELSE LET l == lines[i] IN
         IF MatchesFrame(l)
         THEN IF IntRaises(l) THEN [st EXCEPT !.exc = "ValueError"]
              ELSE LET f == StackFrame(l.file, l.num, l.fn, ContextOf(lines, i))
                       next == [st EXCEPT
                                  !.frames = Append(@, f),
                                  !.ctxAt = IF HasContext(lines, i)
                                            THEN @ \cup {i + 1} ELSE @]
                   IN  ScanFrames(lines,
                                  IF HasContext(lines, i) THEN i + 2 ELSE i + 1,
                                  next)
         ELSE IF MatchesErrorLine(l) \/ MatchesSimple(l)
              THEN [st EXCEPT !.etype = l.cat, !.msg = l.msg, !.errAt = i]
              ELSE ScanFrames(lines, i + 1, st)

\* "If we still don't have an error type, check the last line"
CheckLastLine(lines, st) ==
    IF st.exc = "" /\ st.etype = "" /\ lines # <<>>
       /\ (MatchesErrorLine(lines[Len(lines)]) \/ MatchesSimple(lines[Len(lines)]))
    THEN [st EXCEPT !.etype = lines[Len(lines)].cat,
                    !.msg = lines[Len(lines)].msg,
                    !.errAt = Len(lines)]
    ELSE st

\* _parse_simple_error: the result when no header line is found
ParseSimpleError(text) ==
    LET lines == StripSplit(text)
        e == FirstErrorFrom(lines, 1)
    IN  ErrorInfo(IF e = 0 THEN "UnknownError" ELSE lines[e].cat,
                  IF e = 0 THEN TextMsg(text) ELSE GroupMsg(lines[e].msg),
                  <<>>,
                  Dedupe(Concat([i \in 1..Len(text) |-> FileRefs(text[i])])),
                  <<>>,
                  text)

\* parse_error_message: [exc, info, path, ctxAt, errAt]
ParseErrorMessage(text) ==
    LET lines == StripSplit(text)
        h == HeaderIndexFrom(lines, 1)
    IN  IF h = 0
        THEN [exc |-> "", info |-> ParseSimpleError(text), path |-> "fallback",
              ctxAt |-> {}, errAt |-> FirstErrorFrom(lines, 1)]
        ELSE LET st == CheckLastLine(lines, ScanFrames(lines, h + 1, ScanStart))
             IN  [exc |-> st.exc,
                  info |-> IF st.exc # "" THEN NoErrorInfo
                           ELSE ErrorInfo(
                                  IF st.etype = "" THEN "UnknownError" ELSE st.etype,
                                  IF st.msg = "" THEN TextMsg(text) ELSE GroupMsg(st.msg),
                                  st.frames,
                                  Dedupe(FramePaths(st.frames)),
                                  FrameLines(st.frames),
                                  text),
                  path |-> "header",
                  ctxAt |-> st.ctxAt,
                  errAt |-> st.errAt]

---------------------------------------------------------------------------
(* str.endswith and pathlib.Path.name *)

EndsWith(s, t) ==
    Len(t) <= Len(s) /\ SubSeq(s, Len(s) - Len(t) + 1, Len(s)) = t

\* Path(p).name: what follows the last "/"
RECURSIVE BaseName(_)
BaseName(p) ==
    IF p = <<>> THEN <<>>
    ELSE IF p[Len(p)] = "/" THEN <<>>
         ELSE Append(BaseName(SubSeq(p, 1, Len(p) - 1)), p[Len(p)])

\* the test of _files_overlap and of _compute_relevance on one pair
PairOverlaps(cf, af) ==
    EndsWith(cf, af) \/ EndsWith(af, cf) \/ BaseName(cf) = BaseName(af)

\* GitAnalyzer._path_matches
PathMatches(path_a, path_b) ==
    \/ path_a = path_b
    \/ EndsWith(path_a, path_b)
    \/ EndsWith(path_b, path_a)
    \/ BaseName(path_a) = BaseName(path_b)

\* GitAnalyzer._files_overlap
FilesOverlap(changed, affected) ==
    \E i \in 1..Len(changed) : \E af \in affected : PairOverlaps(changed[i], af)

Range(s) == {s[i] : i \in 1..Len(s)}
Min(a, b) == IF a <= b THEN a ELSE b

\* analyze_commits: set(error_info.affected_files) plus every frame's file
AffectedFiles(info) ==
    Range(info.affected_files) \cup Range(FramePaths(info.stack_trace))

---------------------------------------------------------------------------
(* GitAnalyzer._compute_relevance, in hundredths *)

Keywords == <<"fix", "bug", "error", "patch", "hotfix", "revert">>

OverlapCount(changed, affected) ==
    Cardinality({<<i, af>> \in (1..Len(changed)) \X affected :
                    PairOverlaps(changed[i], af)})

OverlapScore(changed, affected) ==
    IF OverlapCount(changed, affected) > 0
    THEN Min(50, OverlapCount(changed, affected) * 15) ELSE 0

RecencyScore(age_days) ==
    IF age_days <= 1 THEN 30
    ELSE IF age_days <= 7 THEN 20
    ELSE IF age_days <= 30 THEN 10
    ELSE 0

\* a variant that adds 0.1 for every keyword found
KeywordScoreEach(msg) ==
    10 * Cardinality({i \in 1..Len(Keywords) : Keywords[i] \in msg.kws})

\* msg.kws: the keywords that occur in commit.message.lower(); the loop
\* breaks at the first one found
KeywordScore(msg) ==
    IF \E i \in 1..Len(Keywords) : Keywords[i] \in msg.kws THEN 10 ELSE 0

ComputeRelevance(commit, changed, affected) ==
    Min(100, OverlapScore(changed, affected) + RecencyScore(commit.age)
             + KeywordScore(commit.message))

---------------------------------------------------------------------------
(* GitAnalyzer.analyze_commits *)

\* a commit message: its text and the keywords found in it
Message(text, kws) == [text |-> text, kws |-> kws]
NoMessage == Message("", {})

\* a commit of the repository: what GitPython reports for it.  changed is
\* the list _get_changed_files returns ([] when the diff lookup fails)
Commit(hash, age, message, changed) ==
    [hash |-> hash, age |-> age, message |-> message, changed |-> changed]

\* a variant without the overlap guard
ScoreNoGuard(commit, affected) ==
    ComputeRelevance(commit, commit.changed, affected)

\* relevance_score=relevance if overlap else 0.0
ScoreOf(commit, affected) ==
    IF FilesOverlap(commit.changed, affected)
    THEN ComputeRelevance(commit, commit.changed, affected) ELSE 0

CommitInfo(commit, affected) ==
    [hash |-> commit.hash, author |-> "dev", timestamp |-> commit.age,
     message |-> commit.message, changed_files |-> commit.changed,
     diff |-> commit.hash, relevance_score |-> ScoreOf(commit, affected)]

\* list(self.repo.iter_commits(max_count=limit)): the first limit commits of
\* the history, which is kept most recent first
Take(hist, limit) == SubSeq(hist, 1, Min(Len(hist), limit))

\* the body of analyze_commits once the commits are read
ScoreCommits(hist, limit, info) ==
    LET cs == Take(hist, limit)
    IN  [i \in 1..Len(cs) |-> CommitInfo(cs[i], AffectedFiles(info))]

---------------------------------------------------------------------------
(* Ranking: sorted(commits, key=relevance_score, reverse=True) *)

\* insert object x after every object whose score is >= its own: a stable
\* descending order, as sorted(..., reverse=True) gives
RECURSIVE InsertDesc(_, _, _)
InsertDesc(sorted, x, h) ==
    IF sorted = <<>> THEN <<x>>
    ELSE IF h[Head(sorted)].relevance_score >= h[x].relevance_score
         THEN <<Head(sorted)>> \o InsertDesc(Tail(sorted), x, h)
         ELSE <<x>> \o sorted

\* two wrong orders: the list as it is, and a descending order that puts an
\* object before the objects of equal score already placed
NotSorted(list, h) == list

RECURSIVE InsertBeforeEqual(_, _, _)
InsertBeforeEqual(sorted, x, h) ==
    IF sorted = <<>> THEN <<x>>
    ELSE IF h[Head(sorted)].relevance_score > h[x].relevance_score
         THEN <<Head(sorted)>> \o InsertBeforeEqual(Tail(sorted), x, h)
         ELSE <<x>> \o sorted

RECURSIVE SortedUnstable(_, _)
SortedUnstable(list, h) ==
    IF list = <<>> THEN <<>>
    ELSE InsertBeforeEqual(SortedUnstable(SubSeq(list, 1, Len(list) - 1), h),
                           list[Len(list)], h)

RECURSIVE SortedDesc(_, _)
SortedDesc(list, h) ==
    IF list = <<>> THEN <<>>
    ELSE InsertDesc(SortedDesc(SubSeq(list, 1, Len(list) - 1), h),
                    list[Len(list)], h)

---------------------------------------------------------------------------
(* GitAnalyzer: validate_repository, the repo property, analyze_commits *)

\* validate_repository: Repo(path) raises NoSuchPathError or
\* InvalidGitRepositoryError, both caught; otherwise _repo is set, and the
\* answer is "not bare"
ValidateRepository(kind, obj) ==
    IF kind \in {"missing", "notrepo"} THEN [ok |-> FALSE, obj |-> obj]
    ELSE [ok |-> kind # "bare", obj |-> "Repo"]

\* the repo property: validates when _repo is None, and raises
\* GitAnalyzerError when that fails
RepoProperty(kind, obj) ==
    IF obj = "None"
    THEN LET v == ValidateRepository(kind, obj)
         IN  [exc |-> IF v.ok THEN "" ELSE "GitAnalyzerError", obj |-> v.obj]
    ELSE [exc |-> "", obj |-> obj]

\* what self.repo.iter_commits(max_count=limit) can do.  GitPython resolves
\* HEAD before it runs git (rev = self.head.commit), and that raises
\* ValueError when the branch has no commit yet; a failing git command
\* (unreadable or corrupt objects) raises GitCommandError
IterCommitsOutcomes(hist) ==
    IF hist = <<>> THEN {"ValueError"} ELSE {"ok", "GitCommandError"}

\* which of these analyze_commits catches
CaughtByAnalyze(outcome) == outcome = "GitCommandError"

\* analyze_commits(error_info, limit): [exc, obj, list]
AnalyzeCommits(kind, obj, hist, limit, info, outcome) ==
    LET r == RepoProperty(kind, obj)
    IN  IF r.exc # "" THEN [exc |-> r.exc, obj |-> r.obj, list |-> <<>>]
        ELSE IF outcome = "ok"
             THEN [exc |-> "", obj |-> r.obj,
                   list |-> ScoreCommits(hist, limit, info)]
             ELSE IF CaughtByAnalyze(outcome)
                  THEN [exc |-> "", obj |-> r.obj, list |-> <<>>]
                  ELSE [exc |-> outcome, obj |-> r.obj, list |-> <<>>]

\* get_total_commit_count: git rev-list --count HEAD, 0 on GitCommandError
TotalCommitCount(hist, outcome) ==
    IF outcome = "ok" /\ hist # <<>> THEN Len(hist) ELSE 0

---------------------------------------------------------------------------
(* GitAnalyzer.prioritize_commits *)

HasMatchingFile(changed, file) ==
    \E i \in 1..Len(changed) : PathMatches(changed[i], file)

\* a variant that adds 0.3 whether or not a changed file matches
BonusAlways(changed, file) == 30

\* a variant that adds 0.3 for every matching file
BonusPerFile(changed, file) ==
    30 * Cardinality({i \in 1..Len(changed) : PathMatches(changed[i], file)})

\* the loop: +0.3 once for an object with a changed file matching the
\* location; the objects are updated in place
BonusFor(changed, file) == IF HasMatchingFile(changed, file) THEN 30 ELSE 0

\* a variant that resets the score of an object without matching file
AddBonusOrReset(h, list, file) ==
    [x \in 1..Len(h) |->
        IF x \in Range(list)
        THEN [h[x] EXCEPT !.relevance_score =
                 IF HasMatchingFile(h[x].changed_files, file) THEN @ + 30
                 ELSE 0]
        ELSE h[x]]

AddBonus(h, list, file) ==
    [x \in 1..Len(h) |->
        IF x \in Range(list)
        THEN [h[x] EXCEPT !.relevance_score =
                              @ + BonusFor(h[x].changed_files, file)]
        ELSE h[x]]

\* a variant whose sort is not stable
PrioritizeUnstable(h, list, file) ==
    [heap |-> AddBonus(h, list, file),
     list |-> SortedUnstable(list, AddBonus(h, list, file))]

\* [heap, list]: the objects after the loop and the sorted list returned
PrioritizeCommits(h, list, file) ==
    LET h2 == AddBonus(h, list, file)
    IN  [heap |-> h2, list |-> SortedDesc(list, h2)]

---------------------------------------------------------------------------
(* HindsightAnalyzer.rank_commits_by_likelihood and identify_root_cause *)

RankCommitsByLikelihood(list, h) == SortedDesc(list, h)

\* RootCause; present = FALSE is None.  The description is the f-string's
\* parts: "Most likely introduced in commit {hash}: {message}"
NoRootCause ==
    [present |-> FALSE, commit |-> 0,
     description |-> [text |-> "", hash |-> 0, message |-> NoMessage],
     confidence |-> 0]

RootCauseOf(x, h) ==
    [present |-> TRUE, commit |-> x,
     description |-> [text |-> "Most likely introduced in commit",
                      hash |-> h[x].hash, message |-> h[x].message],
     confidence |-> h[x].relevance_score]

IdentifyRootCause(list, h) ==
    IF list = <<>> THEN NoRootCause
    ELSE LET ranked == RankCommitsByLikelihood(list, h)
         IN  IF ranked = <<>> THEN NoRootCause ELSE RootCauseOf(ranked[1], h)

---------------------------------------------------------------------------
(* IntentInfo, Explanation, AnalysisResult (models.py); present = FALSE is *)
(* None                                                                    *)

IntentInfo(docs, tests, comments, patterns) ==
    [present |-> TRUE, docstring_intents |-> docs, test_intents |-> tests,
     comment_intents |-> comments, pattern_intents |-> patterns]

NoIntent ==
    [present |-> FALSE, docstring_intents |-> <<>>, test_intents |-> <<>>,
     comment_intents |-> <<>>, pattern_intents |-> <<>>]

\* a limitation or note: what it reports and the file it names
Note(kind, file) == [kind |-> kind, file |-> file]

\* summary: how the text is built and the ErrorInfo fields it quotes;
\* root_cause: the kind of text and the hash of the commit it names (0: none);
\* intent_vs_actual: the intents the text quotes
Explanation(summary, cause, iva, refs, fixes, notes) ==
    [present |-> TRUE, summary |-> summary, root_cause |-> cause,
     intent_vs_actual |-> iva, commit_references |-> refs,
     fix_suggestions |-> fixes, educational_notes |-> notes]

NoCauseText == [kind |-> "", hash |-> 0]

NoExplanation ==
    [present |-> FALSE,
     summary |-> [kind |-> "", error_type |-> "", message |-> GroupMsg("")],
     root_cause |-> NoCauseText,
     intent_vs_actual |-> <<>>, commit_references |-> <<>>,
     fix_suggestions |-> <<>>, educational_notes |-> <<>>]

AnalysisResult(info, cause, expl, rel, int, lims) ==
    [present |-> TRUE, error_info |-> info, root_cause |-> cause,
     explanation |-> expl, relevant_commits |-> rel, intent_info |-> int,
     limitations |-> lims]

NoResult ==
    [present |-> FALSE, error_info |-> NoErrorInfo, root_cause |-> NoRootCause,
     explanation |-> NoExplanation, relevant_commits |-> <<>>,
     intent_info |-> NoIntent, limitations |-> <<>>]

---------------------------------------------------------------------------
(* The files that intent extraction reads                                  *)
(*                                                                         *)
(* What is at a path.  kind: "missing"; "denied" (a directory on the way   *)
(* cannot be searched: stat fails with EACCES); "dir" (something that is   *)
(* no regular file); "unreadable" (a regular file whose read fails with    *)
(* OSError); "file".  For a file, lines says what each line of the source  *)
(* is to extract_comments, parse what ast.parse does with the source       *)
(* ("ok", "syntax": SyntaxError, "raises": another exception, such as the  *)
(* MemoryError of a long chain of unary operators), and docs, patterns,    *)
(* tests count the documented definitions, the pattern nodes and the       *)
(* test_ functions of its tree.                                            *)

Thing(kind, lines, parse, docs, patterns, tests) ==
    [kind |-> kind, lines |-> lines, parse |-> parse, docs |-> docs,
     patterns |-> patterns, tests |-> tests]

Missing == Thing("missing", <<>>, "", 0, 0, 0)
Denied == Thing("denied", <<>>, "", 0, 0, 0)
Directory == Thing("dir", <<>>, "", 0, 0, 0)
Unreadable == Thing("unreadable", <<>>, "", 0, 0, 0)
SourceFile(lines, parse, docs, patterns, tests) ==
    Thing("file", lines, parse, docs, patterns, tests)

NoFiles == <<>>
FileAt(at, p) == IF p \in DOMAIN at THEN at[p] ELSE Missing

\* one item of an intent list: the list it belongs to, the file it was
\* read from, its position (the line_number of a comment) and the
\* intent_type of a comment
Intent(kind, file, n, type) ==
    [kind |-> kind, file |-> file, at |-> n, type |-> type]

\* a line of source, as extract_comments sees it: "code" (no leading #),
\* "shebang" (#!), "coding" (# -*-), "hash" (# and nothing else),
\* "inline", "todo" (a comment with text)
SourceLines == {"code", "shebang", "coding", "hash", "inline", "todo"}

\* IntentExtractor.extract_comments(source): one CommentIntent per line
\* that starts with # and has text, shebang and coding lines apart
RECURSIVE ExtractCommentsFrom(_, _, _)
ExtractCommentsFrom(file, lines, i) ==
    IF i > Len(lines) THEN <<>>
    ELSE (IF lines[i] \in {"inline", "todo"}
          THEN <<Intent("comment", file, i, lines[i])>> ELSE <<>>)
         \o ExtractCommentsFrom(file, lines, i + 1)

ExtractComments(file, lines) == ExtractCommentsFrom(file, lines, 1)

\* IntentExtractor._parse_ast: the tree, None on SyntaxError; any other
\* exception of ast.parse leaves it
ParseAst(f) ==
    [exc |-> IF f.parse = "raises" THEN "MemoryError" ELSE "",
     tree |-> f.parse = "ok"]

\* parse_docstrings(tree), infer_from_patterns(tree)
ParseDocstrings(file, f) ==
    [i \in 1..f.docs |-> Intent("docstring", file, i, "")]
InferFromPatterns(file, f) ==
    [i \in 1..f.patterns |-> Intent("pattern", file, i, "")]

\* Path(p).parent, with its separator, and p.name.startswith("test_"):
\* the character "t" stands for the prefix test_, "T" for the directory
\* tests
DirName(p) == SubSeq(p, 1, Len(p) - Len(BaseName(p)))
StartsWithTest(p) == BaseName(p) # <<>> /\ Head(BaseName(p)) = "t"
TestBeside(p) == DirName(p) \o <<"t">> \o BaseName(p)
TestUnder(p) == DirName(p) \o <<"T", "/", "t">> \o BaseName(p)

\* IntentExtractor.analyze_test_cases(test_file_path): [exc, list]
AnalyzeTestCases(tp, at) ==
    LET t == FileAt(at, tp)
    IN  IF t.kind = "denied" THEN [exc |-> "PermissionError", list |-> <<>>]
        ELSE IF t.kind # "file" THEN [exc |-> "", list |-> <<>>]
        ELSE IF ParseAst(t).exc # ""
        THEN [exc |-> ParseAst(t).exc, list |-> <<>>]
        ELSE IF ~ParseAst(t).tree THEN [exc |-> "", list |-> <<>>]
        ELSE [exc |-> "",
              list |-> [i \in 1..t.tests |-> Intent("test", tp, i, "")]]

\* the test file extract_from_file settles on: the one beside the file
\* when something is there, else the one under tests/
TestPathOf(file, at) ==
    IF FileAt(at, TestBeside(file)).kind # "missing" THEN TestBeside(file)
    ELSE TestUnder(file)

\* the lookup of the associated test file: test_path.exists() raises when
\* stat fails with another error than "no such file"; [exc, list]
AssociatedTestIntents(file, at) ==
    LET tp == TestPathOf(file, at)
    IN  IF "denied" \in {FileAt(at, TestBeside(file)).kind,
                         FileAt(at, tp).kind}
        THEN [exc |-> "PermissionError", list |-> <<>>]
        ELSE IF FileAt(at, tp).kind = "missing"
        THEN [exc |-> "", list |-> <<>>]
        ELSE AnalyzeTestCases(tp, at)

\* "Check for associated test file": a file named test_ has none
TestIntents(file, at) ==
    IF StartsWithTest(file) THEN [exc |-> "", list |-> <<>>]
    ELSE AssociatedTestIntents(file, at)

\* IntentExtractor.extract_from_file(file_path) on the files at:
\* [exc, intent]
ExtractFromFile(file, at) ==
    LET f == FileAt(at, file)
        empty == IntentInfo(<<>>, <<>>, <<>>, <<>>)
        t == TestIntents(file, at)
    IN  IF f.kind = "denied"
        THEN [exc |-> "PermissionError", intent |-> NoIntent]
        ELSE IF f.kind # "file" THEN [exc |-> "", intent |-> empty]
        ELSE IF ParseAst(f).exc # ""
        THEN [exc |-> ParseAst(f).exc, intent |-> NoIntent]
        ELSE IF t.exc # "" THEN [exc |-> t.exc, intent |-> NoIntent]
        ELSE [exc |-> "",
              intent |->
                  IntentInfo(IF ParseAst(f).tree
                             THEN ParseDocstrings(file, f) ELSE <<>>,
                             t.list,
                             ExtractComments(file, f.lines),
                             IF ParseAst(f).tree
                             THEN InferFromPatterns(file, f) ELSE <<>>)]

---------------------------------------------------------------------------
(* What analyze_bug calls besides the parser and the GitAnalyzer           *)

\* config.analysis.max_commits
max_commits == 50

\* a variant that filters nothing
AllCommits(list, h) == list

\* [c for c in commits if c.relevance_score > 0]
RelevantCommits(list, h) ==
    LET Positive(x) == h[x].relevance_score > 0
    IN  SelectSeq(list, Positive)

\* a variant of the early return without its limitation
InvalidRepoResultNoNote(info) ==
    AnalysisResult(info, NoRootCause, NoExplanation, <<>>, NoIntent, <<>>)

\* the early return: the parsed ErrorInfo and one limitation
InvalidRepoResult(info) ==
    AnalysisResult(info, NoRootCause, NoExplanation, <<>>, NoIntent,
                   <<Note("not_a_repo", NoPath)>>)

\* a variant of the loop that gives up at the first file that fails
RECURSIVE ExtractUntilFailure(_, _, _, _, _)
ExtractUntilFailure(files, at, i, int, lims) ==
    IF i > Len(files) THEN [intent |-> int, limitations |-> lims]
    ELSE LET r == ExtractFromFile(files[i], at)
             b == r.intent
         IN  IF r.exc # ""
             THEN [intent |-> int,
                   limitations |->
                       Append(lims, Note("intent_failed", files[i]))]
             ELSE ExtractUntilFailure(files, at, i + 1,
                      IntentInfo(int.docstring_intents \o b.docstring_intents,
                                 int.test_intents \o b.test_intents,
                                 int.comment_intents \o b.comment_intents,
                                 int.pattern_intents \o b.pattern_intents),
                      lims)

\* the loop over error_info.affected_files on the files at hand:
\* [intent, limitations]
RECURSIVE ExtractAll(_, _, _, _, _)
ExtractAll(files, at, i, int, lims) ==
    IF i > Len(files) THEN [intent |-> int, limitations |-> lims]
    ELSE LET r == ExtractFromFile(files[i], at)
             b == r.intent
         IN  IF r.exc # ""
             THEN ExtractAll(files, at, i + 1, int,
                             Append(lims, Note("intent_failed", files[i])))
             ELSE ExtractAll(files, at, i + 1,
                      IntentInfo(int.docstring_intents \o b.docstring_intents,
                                 int.test_intents \o b.test_intents,
                                 int.comment_intents \o b.comment_intents,
                                 int.pattern_intents \o b.pattern_intents),
                      lims)

\* f"{c.hash}: {c.message}"
CommitRef(c) == [hash |-> c.hash, message |-> c.message]
RefsOf(list, h) == [i \in 1..Len(list) |-> CommitRef(h[list[i]])]
FirstN(s, n) == SubSeq(s, 1, Min(Len(s), n))

\* a summary text: how it is built and the ErrorInfo fields it quotes
Summary(kind, info) ==
    [kind |-> kind, error_type |-> info.error_type, message |-> info.message]

\* a root_cause text naming relevant[0], "" when relevant is empty
CauseText(kind, list, h) ==
    IF list = <<>> THEN NoCauseText
    ELSE [kind |-> kind, hash |-> h[list[1]].hash]

\* HindsightAnalyzer._basic_explanation(bug_context, limitations)
BasicExplanation(info, rel, int, lims, h) ==
    LET positive == RelevantCommits(rel, h)
    IN  Explanation(Summary("basic", info), CauseText("related", positive, h),
                    IF int.present THEN FirstN(int.docstring_intents, 1)
                    ELSE <<>>,
                    RefsOf(FirstN(positive, 5), h), <<>>, lims)

\* BugExplainer._fallback_explanation(ctx)
FallbackExplanation(info, rel, h) ==
    LET positive == RelevantCommits(rel, h)
    IN  Explanation(Summary("fallback", info),
                    CauseText("related", positive, h), <<>>,
                    RefsOf(positive, h), <<>>,
                    <<Note("ai_unavailable", NoPath),
                      Note("needs_api_key", NoPath)>>)

\* BugExplainer._parse_response(raw, ctx): a response with the sections, or
\* one without any (the raw text becomes the summary)
ParseResponse(response, rel, h) ==
    IF response = "structured"
    THEN Explanation(Summary("ai", NoErrorInfo), [kind |-> "ai", hash |-> 0],
                     <<Note("ai_intent", NoPath)>>,
                     RefsOf(RelevantCommits(rel, h), h),
                     <<Note("ai_fix", NoPath)>>, <<Note("ai_note", NoPath)>>)
    ELSE Explanation(Summary("raw", NoErrorInfo), NoCauseText, <<>>, <<>>,
                     <<>>, <<>>)

\* what the generator can do: answer with or without sections, fail every
\* attempt (_call_api returns None), or raise
GeneratorOutcomes == {"structured", "unstructured", "exhausted", "raises"}

\* BugExplainer.generate_explanation(bug_context)
GenerateExplanation(outcome, info, rel, h) ==
    IF outcome = "exhausted" THEN FallbackExplanation(info, rel, h)
    ELSE ParseResponse(outcome, rel, h)

\* a variant that hashes the scores of the commits too
ContextHashWithScores(info, rel, h) ==
    [error_type |-> info.error_type, message |-> info.message,
     files |-> info.affected_files,
     commits |-> [i \in 1..Len(rel) |->
                     <<h[rel[i]].hash, h[rel[i]].relevance_score>>]]

\* BugContext.context_hash(): the digest stands as the JSON document it
\* is the digest of, which json.dumps builds from four fields (sha256 is
\* taken to be free of collisions on the documents of the model)
ContextHash(info, rel, h) ==
    [error_type |-> info.error_type, message |-> info.message,
     files |-> info.affected_files,
     commits |-> [i \in 1..Len(rel) |-> h[rel[i]].hash]]

\* CacheManager.get / set on ai_responses; an entry past its ttl is
\* deleted by get.  An entry also remembers the explanation that the call
\* which stored it returned (returned: history kept for the properties, the
\* file holds only data)
CacheEntries(c, key) == {e \in c : e.key = key}
CacheHit(c, key, fresh) == fresh /\ CacheEntries(c, key) # {}
CacheAfterGet(c, key, fresh) ==
    IF fresh THEN c ELSE c \ CacheEntries(c, key)
CacheSet(c, key, data, written, returned) ==
    IF written
    THEN (c \ CacheEntries(c, key))
         \cup {[key |-> key, data |-> data, returned |-> returned]}
    ELSE c

\* the dict _generate_explanation stores, and the Explanation it builds
\* from a stored dict
CacheData(e) ==
    [summary |-> e.summary, root_cause |-> e.root_cause,
     intent_vs_actual |-> e.intent_vs_actual,
     commit_references |-> e.commit_references,
     educational_notes |-> e.educational_notes]
FromCache(d) ==
    Explanation(d.summary, d.root_cause, d.intent_vs_actual,
                d.commit_references, <<>>, d.educational_notes)

\* _generate_explanation(bug_context, limitations):
\* [explanation, limitations, cache, calls, hit, key, generator]: what it
\* returns and leaves, whether the cache answered, what get_api_key() gave
\* when it was asked, and what the generator did when it was called.  env
\* is what the call meets:
\* fresh (a stored entry is within its ttl), hasKey (get_api_key() finds a
\* key), outcome (of the generator), written (cache.set writes the file)
GenerateExplanationStep(on, c, info, rel, int, lims, h, env) ==
    LET key == ContextHash(info, rel, h)
        c1 == IF on THEN CacheAfterGet(c, key, env.fresh) ELSE c
        seen == IF on THEN {"cache.get"} ELSE {}
    IN  IF on /\ CacheHit(c, key, env.fresh)
        THEN [explanation |->
                  FromCache((CHOOSE e \in CacheEntries(c, key) : TRUE).data),
              limitations |-> lims, cache |-> c1, calls |-> seen,
              hit |-> TRUE, key |-> "", generator |-> ""]
        ELSE IF ~env.hasKey
        THEN LET ls == Append(lims, Note("no_api_key", NoPath))
             IN  [explanation |-> BasicExplanation(info, rel, int, ls, h),
                  limitations |-> ls, cache |-> c1, calls |-> seen,
                  hit |-> FALSE, key |-> "absent", generator |-> ""]
        ELSE IF env.outcome = "raises"
        THEN LET ls == Append(lims, Note("ai_failed", NoPath))
             IN  [explanation |-> BasicExplanation(info, rel, int, ls, h),
                  limitations |-> ls, cache |-> c1,
                  calls |-> seen \cup {"generate_explanation"},
                  hit |-> FALSE, key |-> "present",
                  generator |-> env.outcome]
        ELSE LET e == GenerateExplanation(env.outcome, info, rel, h)
             IN  [explanation |-> e, limitations |-> lims,
                  cache |-> IF on THEN CacheSet(c1, key, CacheData(e),
                                            env.written, e)
                            ELSE c1,
                  calls |-> seen \cup {"generate_explanation"}
                                 \cup (IF on THEN {"cache.set"} ELSE {}),
                  hit |-> FALSE, key |-> "present",
                  generator |-> env.outcome]

---------------------------------------------------------------------------
(* State shared by the specifications *)

parseVars == <<raw, errorInfo, raised, pc>>
gitVars == <<repoKind, history, repoObj, heap, commits, ret, nPrio>>
sideVars == <<contexts, hashes, clock, api>>
runVars == <<sideVars, disk, cacheOn, cache, runs, calls, limitations, relevant, intent,
             rootCause, explanation, result>>
vars == <<raw, errorInfo, raised, pc, repoKind, history, repoObj, heap,
          commits, ret, nPrio, contexts, hashes, clock, api, disk, cacheOn, cache, runs, calls, limitations,
          relevant, intent, rootCause, explanation, result>>

\* op: the method; limit, outcome, file: its arguments and what git did;
\* exc: the exception it raised; ok: validate_repository's answer;
\* list: the list it returned; cause: the RootCause it returned; count: the
\* number get_total_commit_count returned; hit, key, generator: what
\* _generate_explanation met (a cache hit, the API key, the generator)
NoRet ==
    [op |-> "", limit |-> 0, outcome |-> "", file |-> NoPath, exc |-> "",
     ok |-> FALSE, list |-> <<>>, cause |-> NoRootCause, count |-> 0,
     hit |-> FALSE, key |-> "", generator |-> ""]

GitIdle ==
    /\ repoKind = "valid"
    /\ history = <<>>
    /\ repoObj = "None"
    /\ heap = <<>>
    /\ commits = <<>>
    /\ ret = NoRet
    /\ nPrio = 0

\* no _call_api call yet.  max_retries: of the BugExplainer; attempts: the
\* messages.create calls made; outcomes: what each did; slept: the seconds
\* of each time.sleep; status: "idle", "loop" (inside _call_api),
\* "returned" (it returned value), "done" (generate_explanation returned)
NoCall ==
    [max_retries |-> 0, attempts |-> 0, outcomes |-> <<>>, slept |-> <<>>,
     status |-> "idle", value |-> ""]

SideIdle ==
    /\ contexts = <<>>
    /\ hashes = <<>>
    /\ clock = 0
    /\ api = NoCall

RunIdle ==
    /\ SideIdle
    /\ disk = NoFiles
    /\ cacheOn = FALSE
    /\ cache = {}
    /\ runs = 0
    /\ calls = {}
    /\ limitations = <<>>
    /\ relevant = <<>>
    /\ intent = NoIntent
    /\ rootCause = NoRootCause
    /\ explanation = NoExplanation
    /\ result = NoResult

---------------------------------------------------------------------------
(* The parser on its own: any text of up to MaxLines lines *)

LineSet ==
    {Hdr, IHdr, Frame(pA, 1, "f"), Frame(pB, 2, "g"), BigFrame(pA, "f"),
     Err("ValueError", "bad"), Err("ValueError", ""), Simple("note", "x"),
     Text(NoPath), Blank}

SeqsUpTo(S, n) == UNION {[1..m -> S] : m \in 0..n}

ParseInit ==
    /\ raw \in SeqsUpTo(LineSet, MaxLines)
    /\ errorInfo = NoErrorInfo
    /\ raised = ""
    /\ pc = "start"
    /\ GitIdle
    /\ RunIdle

\* a call of parse_error_message(raw)
Parse ==
    /\ pc = "start"
    /\ LET r == ParseErrorMessage(raw)
       IN  /\ errorInfo' = r.info
           /\ raised' = r.exc
    /\ pc' = "parsed"
    /\ UNCHANGED <<raw, gitVars, runVars>>

SpecParse == ParseInit /\ [][Parse]_vars

---------------------------------------------------------------------------
(* The parser on well-formed traces: the header, one to MaxFrames frame    *)
(* lines, each with or without a source line after it, and an error line   *)

TraceFrames == {Frame(pA, 1, "f"), Frame(pB, 2, "g"), Frame(pA, 2, "g")}
\* a source line may be any line that is not a frame line: "x: int = 5"
\* matches the looser error pattern
TraceContexts == {Text(NoPath), Simple("x", "int"), Blank}
TraceErrors == {Err("ValueError", "bad"), Err("KeyError", ""), Simple("note", "x")}

Blocks == {<<f>> : f \in TraceFrames}
          \cup {<<f, c>> : <<f, c>> \in TraceFrames \X TraceContexts}

RECURSIVE BlockSeqs(_)
BlockSeqs(n) ==
    IF n = 0 THEN {<<>>}
    ELSE {bs \o b : <<bs, b>> \in BlockSeqs(n - 1) \X Blocks}

\* the text of a trace of n frames ending in error line e, and its frames
TraceTexts ==
    {<<Hdr>> \o bs \o <<e>> :
        <<bs, e>> \in (UNION {BlockSeqs(n) : n \in 1..MaxFrames}) \X TraceErrors}

TraceInit ==
    /\ raw \in TraceTexts
    /\ errorInfo = NoErrorInfo
    /\ raised = ""
    /\ pc = "start"
    /\ GitIdle
    /\ RunIdle

SpecTrace == TraceInit /\ [][Parse]_vars

---------------------------------------------------------------------------
(* The GitAnalyzer on one repository: validate_repository and             *)
(* analyze_commits, called in any order with one ErrorInfo                 *)

MsgPlain == Message("refactor", {})
MsgFix == Message("hotfix", {"fix", "hotfix"})

\* age in days, message, changed files of a commit
Shape(age, message, changed) ==
    [age |-> age, message |-> message, changed |-> changed]

CommitShapes ==
    {Shape(0, MsgFix, <<pA>>), Shape(40, MsgPlain, <<pDA, pXA, pA>>),
     Shape(20, MsgFix, <<pB>>)}

\* hashes number the commits from the oldest
HistoryOf(shapes) ==
    [i \in 1..Len(shapes) |->
        Commit(Len(shapes) - i + 1, shapes[i].age, shapes[i].message,
               shapes[i].changed)]

Histories == {HistoryOf(ss) : ss \in SeqsUpTo(CommitShapes, MaxDepth)}

\* an ErrorInfo a caller builds: referenced files and frames are independent
FrameAt(file) == StackFrame(file, 1, "f", <<>>)
CallerInfo(files, frameFiles) ==
    ErrorInfo("Error", GroupMsg("test"),
              [i \in 1..Len(frameFiles) |-> FrameAt(frameFiles[i])],
              files, <<>>, <<>>)

GitErrorInfos ==
    {CallerInfo(<<pA>>, <<>>), CallerInfo(<<>>, <<pEA>>),
     CallerInfo(<<pA, pB>>, <<pEA>>)}

Locations == {pA, pB}

GitInit ==
    /\ raw = <<>>
    /\ errorInfo \in GitErrorInfos
    /\ raised = ""
    /\ pc = "git"
    /\ repoKind \in {"missing", "notrepo", "bare", "valid"}
    /\ history \in Histories
    /\ repoKind \in {"missing", "notrepo"} => history = <<>>
    /\ repoObj = "None"
    /\ heap = <<>>
    /\ commits = <<>>
    /\ ret = NoRet
    /\ nPrio = 0
    /\ RunIdle

\* validate_repository()
GValidate ==
    /\ pc = "git"
    /\ LET v == ValidateRepository(repoKind, repoObj)
       IN  /\ repoObj' = v.obj
           /\ ret' = [NoRet EXCEPT !.op = "validate", !.ok = v.ok]
    /\ raised' = ""
    /\ UNCHANGED <<raw, errorInfo, pc, repoKind, history, heap, commits, nPrio,
                   runVars>>

\* commits = analyze_commits(error_info, limit); the caller keeps its old
\* list when the call raises
GAnalyze ==
    /\ pc = "git"
    /\ \E limit \in 1..MaxLimit : \E outcome \in IterCommitsOutcomes(history) :
         LET r == AnalyzeCommits(repoKind, repoObj, history, limit, errorInfo,
                                 outcome)
             list == [i \in 1..Len(r.list) |-> i]
         IN  /\ repoObj' = r.obj
             /\ raised' = r.exc
             /\ ret' = [NoRet EXCEPT !.op = "analyze", !.limit = limit,
                                     !.outcome = outcome, !.exc = r.exc,
                                     !.list = list]
             /\ IF r.exc = ""
                THEN heap' = r.list /\ commits' = list /\ nPrio' = 0
                ELSE UNCHANGED <<heap, commits, nPrio>>
    /\ UNCHANGED <<raw, errorInfo, pc, repoKind, history, runVars>>

GitNext == GValidate \/ GAnalyze

SpecGit == GitInit /\ [][GitNext]_vars

---------------------------------------------------------------------------
(* analyze_commits on a history of one commit, over the ages around the    *)
(* recency thresholds (-1: a commit dated in the future), the messages     *)
(* with no, one and two keywords, and changed files with 0 to 5 overlaps   *)

ScoreAges == {-1, 0, 1, 2, 7, 8, 30, 31}
ScoreMessages == {MsgPlain, MsgFix, Message("fix bug", {"fix", "bug"})}
ScoreChanged == {<<>>, <<pA>>, <<pB, pA>>, <<pDA, pXA, pA>>}

ScoreHistories ==
    {HistoryOf(<<Shape(a, m, c)>>) :
        a \in ScoreAges, m \in ScoreMessages, c \in ScoreChanged}

ScoreInit ==
    /\ raw = <<>>
    /\ errorInfo \in GitErrorInfos
    /\ raised = ""
    /\ pc = "git"
    /\ repoKind = "valid"
    /\ history \in ScoreHistories
    /\ repoObj = "None"
    /\ heap = <<>>
    /\ commits = <<>>
    /\ ret = NoRet
    /\ nPrio = 0
    /\ RunIdle

SpecScore == ScoreInit /\ [][GAnalyze]_vars

---------------------------------------------------------------------------
(* Re-ranking and root-cause selection on a list analyze_commits returned  *)

\* the caller holds the list analyze_commits made of the whole history
RankInit ==
    /\ raw = <<>>
    /\ errorInfo \in GitErrorInfos
    /\ raised = ""
    /\ pc = "git"
    /\ repoKind = "valid"
    /\ history \in Histories
    /\ repoObj = "Repo"
    /\ heap = ScoreCommits(history, Len(history), errorInfo)
    /\ commits = [i \in 1..Len(history) |-> i]
    /\ ret = NoRet
    /\ nPrio = 0
    /\ RunIdle

\* commits = prioritize_commits(commits, ErrorLocation(file, ...))
GPrioritize ==
    /\ pc = "git"
    /\ nPrio < MaxPrioritize
    /\ \E file \in Locations :
         LET r == PrioritizeCommits(heap, commits, file)
         IN  /\ heap' = r.heap
             /\ commits' = r.list
             /\ ret' = [NoRet EXCEPT !.op = "prioritize", !.file = file,
                                     !.list = r.list]
    /\ nPrio' = nPrio + 1
    /\ raised' = ""
    /\ UNCHANGED <<raw, errorInfo, pc, repoKind, history, repoObj, runVars>>

\* rank_commits_by_likelihood(commits)
GRank ==
    /\ pc = "git"
    /\ ret' = [NoRet EXCEPT !.op = "rank",
                            !.list = RankCommitsByLikelihood(commits, heap)]
    /\ raised' = ""
    /\ UNCHANGED <<raw, errorInfo, pc, repoKind, history, repoObj, heap,
                   commits, nPrio, runVars>>

\* identify_root_cause(commits, intent)
GIdentify ==
    /\ pc = "git"
    /\ ret' = [NoRet EXCEPT !.op = "identify",
                            !.cause = IdentifyRootCause(commits, heap)]
    /\ raised' = ""
    /\ UNCHANGED <<raw, errorInfo, pc, repoKind, history, repoObj, heap,
                   commits, nPrio, runVars>>

RankNext == GPrioritize \/ GRank \/ GIdentify

SpecRank == RankInit /\ [][RankNext]_vars

---------------------------------------------------------------------------
(* extract_from_file on a path, the test file beside it or the test file   *)
(* under tests/, whatever is at the three paths                            *)

\* the files around one path: the path, the test file beside it and the
\* test file under tests/
Around(p, thing, beside, under) ==
    (p :> thing) @@ (TestBeside(p) :> beside) @@ (TestUnder(p) :> under)

\* the sources of up to MaxSrcLines lines: one that parses, with or
\* without documented definitions and pattern nodes, one that does not
\* parse, one on which ast.parse raises
Sources ==
    {SourceFile(l, "ok", d, p, 0) :
        l \in SeqsUpTo(SourceLines, MaxSrcLines), d \in 0..1, p \in 0..1}
    \cup {SourceFile(l, q, 0, 0, 0) :
            l \in SeqsUpTo(SourceLines, MaxSrcLines),
            q \in {"syntax", "raises"}}

\* what can be at the path of a test file
TestThings ==
    {Missing, Denied, Unreadable}
    \cup {SourceFile(<<>>, "ok", 0, 0, n) : n \in 0..1}
    \cup {SourceFile(<<>>, q, 0, 0, 0) : q \in {"syntax", "raises"}}

ExtractInit ==
    /\ raw = <<>>
    /\ errorInfo = NoErrorInfo
    /\ raised = ""
    /\ pc = "start"
    /\ GitIdle
    /\ SideIdle
    /\ disk \in {Around(pDA, x, b, u) :
                  x \in {Missing, Denied, Directory, Unreadable} \cup Sources,
                  b \in TestThings, u \in TestThings}
    /\ cacheOn = FALSE
    /\ cache = {}
    /\ runs = 0
    /\ calls = {}
    /\ limitations = <<>>
    /\ relevant = <<>>
    /\ intent = NoIntent
    /\ rootCause = NoRootCause
    /\ explanation = NoExplanation
    /\ result = NoResult

\* intent = extract_from_file(p), for one of the three paths
Extract ==
    /\ pc = "start"
    /\ \E p \in DOMAIN disk :
          LET r == ExtractFromFile(p, disk)
          IN  /\ ret' = [NoRet EXCEPT !.op = "extract_from_file",
                                     !.file = p, !.exc = r.exc]
              /\ intent' = r.intent
              /\ raised' = r.exc
    /\ pc' = "done"
    /\ UNCHANGED <<raw, errorInfo, repoKind, history, repoObj, heap, commits,
                   nPrio, disk, cacheOn, cache, runs, calls, limitations,
                   relevant, rootCause, explanation, result, sideVars>>

SpecExtract == ExtractInit /\ [][Extract]_vars

---------------------------------------------------------------------------
(* context_hash on two BugContexts, called up to MaxHashCalls times        *)

\* BugContext: relevant is the list of CommitInfo objects (indices of h),
\* repo the total_commits of its RepositoryContext
BugContext(info, rel, h, int, repo) ==
    [error_info |-> info, relevant_commits |-> rel, heap |-> h,
     intent_info |-> int, repository_context |-> repo]

\* error types, messages, file lists and frames of the contexts hashed
HashInfos ==
    {ErrorInfo(t, GroupMsg("bad"), fr, fl, FrameLines(fr), <<>>) :
        t \in {"ValueError", "KeyError"},
        fr \in {<<>>, <<FrameAt(pA)>>},
        fl \in {<<pA>>, <<pA, pB>>}}

\* two commits that touch a.py, scored against a.py or against b.py
HashHeaps ==
    {ScoreCommits(HistoryOf(<<Shape(0, MsgFix, <<pA>>),
                              Shape(40, MsgPlain, <<pA>>)>>),
                  2, CallerInfo(fl, <<>>)) :
        fl \in {<<pA>>, <<pB>>}}

HashContexts ==
    {BugContext(info, rel, h, int, repo) :
        info \in HashInfos, rel \in {<<>>, <<1>>, <<1, 2>>, <<2, 1>>},
        h \in HashHeaps,
        int \in {NoIntent, IntentInfo(<<Intent("docstring", pA, 1, "")>>,
                                       <<>>, <<>>, <<>>)},
        repo \in {0, 2}}

HashInit ==
    /\ raw = <<>>
    /\ errorInfo = NoErrorInfo
    /\ raised = ""
    /\ pc = "hash"
    /\ GitIdle
    /\ \E a \in {c \in HashContexts : c.repository_context = 0
                                        /\ c.intent_info = NoIntent
                                        /\ c.error_info.stack_trace = <<>>
                                        /\ c.error_info.error_type = "KeyError"},
          b \in HashContexts : contexts = <<a, b>>
    /\ hashes = <<>>
    /\ clock = 0
    /\ api = NoCall
    /\ disk = NoFiles
    /\ cacheOn = FALSE
    /\ cache = {}
    /\ runs = 0
    /\ calls = {}
    /\ limitations = <<>>
    /\ relevant = <<>>
    /\ intent = NoIntent
    /\ rootCause = NoRootCause
    /\ explanation = NoExplanation
    /\ result = NoResult

\* contexts[i].context_hash()
HashCall ==
    /\ Len(hashes) < MaxHashCalls
    /\ \E i \in 1..Len(contexts) :
          hashes' = Append(hashes,
                           [of |-> i,
                            value |-> ContextHash(contexts[i].error_info,
                                                  contexts[i].relevant_commits,
                                                  contexts[i].heap)])
    /\ UNCHANGED <<raw, errorInfo, raised, pc, gitVars, contexts, clock, api,
                   disk, cacheOn, cache, runs, calls, limitations, relevant,
                   intent, rootCause, explanation, result>>

SpecHash == HashInit /\ [][HashCall]_vars

---------------------------------------------------------------------------
(* CacheManager (cache.py): get, set, invalidate, clear and                *)
(* cleanup_expired on one cache directory, while time passes               *)

\* CacheManager(cache_dir, ttl=3600)
ttl == 3600

\* the sub-directories _ensure_dirs makes that the model uses
CacheTypes == {"git_analysis", "ai_responses"}

\* a value handed to set or returned by get.  kind: "dict" (strings and
\* numbers under string keys), "tuple", "list", "set" (which json cannot
\* encode), "None"
Value(kind, n) == [kind |-> kind, n |-> n]
None == Value("None", 0)

\* json.dump raises TypeError on a set; json.load gives a list for what
\* was a tuple
JsonEncodable(v) == v.kind # "set"
JsonRoundTrip(v) == IF v.kind = "tuple" THEN Value("list", v.n) ELSE v

\* a file <key>.json of a sub-directory: readable says that json.load
\* accepts its text
CacheFile(type, key, readable, timestamp, data) ==
    [type |-> type, key |-> key, readable |-> readable,
     timestamp |-> timestamp, data |-> data]

\* a variant that finds a key under any type
FilesOfKey(c, type, key) == {f \in c : f.key = key}

FilesAt(c, type, key) == {f \in c : f.type = type /\ f.key = key}

\* a variant that takes an entry of age ttl as expired
ExpiredAtTtl(f, now) == now - f.timestamp >= ttl

\* time.time() - entry.get("timestamp", 0) > self.ttl
Expired(f, now) == now - f.timestamp > ttl

\* CacheManager.get(cache_type, key): [cache, value]
CacheManagerGet(c, type, key, now) ==
    IF FilesAt(c, type, key) = {} THEN [cache |-> c, value |-> None]
    ELSE LET f == CHOOSE x \in FilesAt(c, type, key) : TRUE
         IN  IF ~f.readable THEN [cache |-> c, value |-> None]
             ELSE IF Expired(f, now)
             THEN [cache |-> c \ {f}, value |-> None]
             ELSE [cache |-> c, value |-> f.data]

\* CacheManager.set(cache_type, key, data): open(path, "w") raises OSError
\* and nothing changes, or it truncates the file and json.dump writes the
\* entry, up to the value it cannot encode
CacheManagerSet(c, type, key, v, now, opened) ==
    IF ~opened THEN c
    ELSE (c \ FilesAt(c, type, key))
         \cup {IF JsonEncodable(v)
               THEN CacheFile(type, key, TRUE, now, JsonRoundTrip(v))
               ELSE CacheFile(type, key, FALSE, 0, None)}

\* CacheManager.invalidate(cache_type, key)
CacheManagerInvalidate(c, type, key) == c \ FilesAt(c, type, key)

\* CacheManager.clear(cache_type): "" is None, every type; [cache, count]
CacheManagerClear(c, type) ==
    LET gone == {f \in c : type = "" \/ f.type = type}
    IN  [cache |-> c \ gone, count |-> Cardinality(gone)]

\* CacheManager.cleanup_expired(): [cache, count]
CleanupExpired(c, now) ==
    LET gone == {f \in c : ~f.readable \/ Expired(f, now)}
    IN  [cache |-> c \ gone, count |-> Cardinality(gone)]

\* the last call of the cache API, when it was made and what it returned
CacheRet(op, type, key, value, count, at) ==
    [op |-> op, type |-> type, key |-> key, value |-> value, count |-> count,
     at |-> at]

\* the entries the calls address: one that is watched, another key of its
\* type and the same key of another type
Watched == <<"git_analysis", "k1">>
CacheSlots == {Watched, <<"git_analysis", "k2">>, <<"ai_responses", "k1">>}

\* the values set stores: any kind in the watched entry, a dict elsewhere
CacheValues(s) ==
    IF s = Watched
    THEN {Value("dict", 1), Value("tuple", 1), Value("set", 1)}
    ELSE {Value("dict", 2)}

\* what became of the watched entry, kept in calls: the last set or
\* invalidate that addressed it (op "none": neither yet), the value and
\* the time of the set, whether the set opened its file, and whether
\* clear or cleanup_expired has removed the entry since
Fate(op, v, at, opened, removed) ==
    [op |-> op, v |-> v, at |-> at, opened |-> opened, removed |-> removed]
NoFate == Fate("none", None, 0, FALSE, FALSE)

\* a call on entry s replaces the fate of the watched entry when s is it
FateAfter(fate, s, new) == IF s = Watched THEN new ELSE fate

\* the watched entry has lost its file
Removed(fate, before, after) ==
    IF FilesAt(before, Watched[1], Watched[2]) # {}
       /\ FilesAt(after, Watched[1], Watched[2]) = {}
    THEN [fate EXCEPT !.removed = TRUE] ELSE fate

CacheInit ==
    /\ raw = <<>>
    /\ errorInfo = NoErrorInfo
    /\ raised = ""
    /\ pc = "cache"
    /\ GitIdle
    /\ contexts = <<>>
    /\ hashes = <<>>
    /\ clock = 0
    /\ api = NoCall
    /\ disk = NoFiles
    /\ cacheOn = TRUE
    /\ cache = {}
    /\ runs = 0
    /\ calls = NoFate
    /\ limitations = <<>>
    /\ relevant = <<>>
    /\ intent = NoIntent
    /\ rootCause = NoRootCause
    /\ explanation = NoExplanation
    /\ result = NoResult

cacheFrame ==
    <<raw, errorInfo, raised, pc, repoKind, history, repoObj, heap, commits,
      nPrio, contexts, hashes, api, disk, cacheOn, runs, limitations,
      relevant, intent, rootCause, explanation, result>>

CSet ==
    /\ \E s \in CacheSlots, opened \in BOOLEAN : \E v \in CacheValues(s) :
          /\ cache' = CacheManagerSet(cache, s[1], s[2], v, clock, opened)
          /\ calls' = FateAfter(calls, s,
                                Fate("set", v, clock, opened, FALSE))
          /\ ret' = CacheRet("set", s[1], s[2], None, 0, clock)
    /\ UNCHANGED <<clock, cacheFrame>>

CGet ==
    /\ \E s \in CacheSlots :
          LET r == CacheManagerGet(cache, s[1], s[2], clock)
          IN  /\ cache' = r.cache
              /\ ret' = CacheRet("get", s[1], s[2], r.value, 0, clock)
    /\ UNCHANGED <<clock, calls, cacheFrame>>

CInvalidate ==
    /\ \E s \in CacheSlots :
          /\ cache' = CacheManagerInvalidate(cache, s[1], s[2])
          /\ calls' = FateAfter(calls, s,
                                Fate("invalidate", None, 0, FALSE, FALSE))
          /\ ret' = CacheRet("invalidate", s[1], s[2], None, 0, clock)
    /\ UNCHANGED <<clock, cacheFrame>>

CClear ==
    /\ \E t \in CacheTypes \cup {""} :
          LET r == CacheManagerClear(cache, t)
          IN  /\ cache' = r.cache
              /\ calls' = Removed(calls, cache, r.cache)
              /\ ret' = CacheRet("clear", t, "", None, r.count, clock)
    /\ UNCHANGED <<clock, cacheFrame>>

CCleanup ==
    /\ LET r == CleanupExpired(cache, clock)
       IN  /\ cache' = r.cache
           /\ calls' = Removed(calls, cache, r.cache)
           /\ ret' = CacheRet("cleanup_expired", "", "", None, r.count, clock)
    /\ UNCHANGED <<clock, cacheFrame>>

\* time passes: one ttl at a time
CTick ==
    /\ clock < MaxTicks * ttl
    /\ clock' = clock + ttl
    /\ UNCHANGED <<cache, calls, ret, cacheFrame>>

CacheNext == CSet \/ CGet \/ CInvalidate \/ CClear \/ CCleanup \/ CTick

SpecCache == CacheInit /\ [][CacheNext]_vars

---------------------------------------------------------------------------
(* BugExplainer.generate_explanation and _call_api (ai_explainer.py): one  *)
(* call, one step per pass of the retry loop                               *)

\* the largest max_retries of the explainers tried
MaxRetries == 2

\* what one attempt does: messages.create answers with or without the
\* sections, raises (the connection fails), or self.client raises
\* RuntimeError because the anthropic package is missing
ApiOutcomes == {"structured", "unstructured", "ConnectionError", "RuntimeError"}
Answers == {"structured", "unstructured"}

\* a variant that sleeps after the last attempt too
WaitAlways(attempt, max_retries) == <<2 ^ (attempt + 1)>>

\* the sleeps after failed attempt number attempt (from 0):
\* if attempt < self.max_retries: time.sleep(2 ** (attempt + 1))
Wait(attempt, max_retries) ==
    IF attempt < max_retries THEN <<2 ^ (attempt + 1)>> ELSE <<>>

\* the contexts explained
ApiContexts ==
    {c \in HashContexts : /\ c.repository_context = 0
                          /\ c.intent_info = NoIntent
                          /\ c.error_info.stack_trace = <<>>
                          /\ c.error_info.affected_files = <<pA>>
                          /\ c.relevant_commits \in {<<>>, <<2, 1>>}
                          /\ \E x \in 1..Len(c.heap) :
                                c.heap[x].relevance_score > 0}

ApiInit ==
    /\ raw = <<>>
    /\ errorInfo = NoErrorInfo
    /\ raised = ""
    /\ pc = "api"
    /\ GitIdle
    /\ \E c \in ApiContexts : contexts = <<c>>
    /\ hashes = <<>>
    /\ clock = 0
    /\ \E m \in 0..MaxRetries : api = [NoCall EXCEPT !.max_retries = m]
    /\ disk = NoFiles
    /\ cacheOn = FALSE
    /\ cache = {}
    /\ runs = 0
    /\ calls = {}
    /\ limitations = <<>>
    /\ relevant = <<>>
    /\ intent = NoIntent
    /\ rootCause = NoRootCause
    /\ explanation = NoExplanation
    /\ result = NoResult

apiFrame ==
    <<raw, errorInfo, raised, pc, gitVars, contexts, hashes, clock, disk,
      cacheOn, cache, runs, calls, limitations, relevant, intent, rootCause,
      result>>

\* generate_explanation builds the prompt and enters _call_api
CallApi_Enter ==
    /\ api.status = "idle"
    /\ api' = [api EXCEPT !.status = "loop"]
    /\ UNCHANGED <<apiFrame, explanation>>

\* one pass of `for attempt in range(self.max_retries + 1)`: the response
\* is returned, or the exception is caught, logged and slept on
CallApi_Attempt ==
    /\ api.status = "loop"
    /\ api.attempts < api.max_retries + 1
    /\ \E o \in ApiOutcomes :
         api' = IF o \in Answers
                THEN [api EXCEPT !.attempts = @ + 1,
                                 !.outcomes = Append(@, o),
                                 !.status = "returned", !.value = o]
                ELSE [api EXCEPT !.attempts = @ + 1,
                                 !.outcomes = Append(@, o),
                                 !.slept = @ \o Wait(api.attempts,
                                                     api.max_retries)]
    /\ UNCHANGED <<apiFrame, explanation>>

\* the loop is over: "All API attempts failed", return None
CallApi_Exhausted ==
    /\ api.status = "loop"
    /\ api.attempts = api.max_retries + 1
    /\ api' = [api EXCEPT !.status = "returned", !.value = "None"]
    /\ UNCHANGED <<apiFrame, explanation>>

\* generate_explanation: the fallback when raw is None, else _parse_response
GenerateExplanation_Return ==
    /\ api.status = "returned"
    /\ explanation' =
          GenerateExplanation(IF api.value = "None" THEN "exhausted"
                              ELSE api.value,
                              contexts[1].error_info,
                              contexts[1].relevant_commits, contexts[1].heap)
    /\ api' = [api EXCEPT !.status = "done"]
    /\ UNCHANGED apiFrame

ApiNext ==
    \/ CallApi_Enter
    \/ CallApi_Attempt
    \/ CallApi_Exhausted
    \/ GenerateExplanation_Return

\* the thread that runs the call keeps running, and every attempt ends (the
\* client has a timeout)
SpecApi == ApiInit /\ [][ApiNext]_vars /\ WF_vars(ApiNext)

---------------------------------------------------------------------------
(* HindsightAnalyzer.analyze_bug: up to MaxRuns calls on one analyzer and  *)
(* one repository; the cache outlives a call                               *)

\* what analyze_bug finds around a referenced file: nothing; a source with
\* a comment that does not parse and a test file beside it; a source that
\* parses and a test file under tests/; a source on which ast.parse raises
PipelineAround(p) ==
    {Around(p, Missing, Missing, Missing),
     Around(p, SourceFile(<<"inline">>, "syntax", 0, 0, 0),
            SourceFile(<<>>, "ok", 0, 0, 1), Missing),
     Around(p, SourceFile(<<"code", "todo">>, "ok", 1, 1, 0), Missing,
            SourceFile(<<>>, "ok", 0, 0, 1)),
     Around(p, SourceFile(<<>>, "raises", 0, 0, 0), Missing, Missing)}

RECURSIVE FilesAround(_)
FilesAround(files) ==
    IF files = <<>> THEN {NoFiles}
    ELSE {a @@ rest : a \in PipelineAround(Head(files)),
                      rest \in FilesAround(Tail(files))}

\* the texts handed to analyze_bug: an error line alone, a trace with one
\* frame and its source line, a trace with two frames, and a text that is
\* no trace but names a file
PipelineTexts ==
    {<<Err("ValueError", "bad")>>,
     <<Hdr, Frame(pA, 1, "f"), Text(NoPath), Err("ValueError", "bad")>>,
     <<Hdr, Frame(pB, 2, "g"), Frame(pA, 1, "f"), Err("ValueError", "bad")>>,
     <<Text(pA), Err("ValueError", "bad")>>}

\* the histories of the repository: none, one commit that touches a.py,
\* one that does not, and pairs in which the older commit scores higher,
\* lower, or the same
PipelineShapes ==
    {<<>>,
     <<Shape(0, MsgFix, <<pA>>)>>,
     <<Shape(20, MsgFix, <<pB>>)>>,
     <<Shape(40, MsgPlain, <<pDA, pXA, pA>>), Shape(0, MsgFix, <<pA>>)>>,
     <<Shape(0, MsgFix, <<pA>>), Shape(20, MsgFix, <<pB>>)>>,
     <<Shape(0, MsgFix, <<pA>>), Shape(0, MsgFix, <<pA>>)>>}

PipelineHistories == {HistoryOf(ss) : ss \in PipelineShapes}

Init ==
    /\ raw = <<>>
    /\ errorInfo = NoErrorInfo
    /\ raised = ""
    /\ pc = "idle"
    /\ repoKind \in {"missing", "notrepo", "bare", "valid"}
    /\ history \in PipelineHistories
    /\ repoKind # "valid" => history = <<>>
    /\ repoObj = "None"
    /\ heap = <<>>
    /\ commits = <<>>
    /\ ret = NoRet
    /\ nPrio = 0
    /\ SideIdle
    /\ disk = NoFiles
    /\ cacheOn \in BOOLEAN
    /\ cache = {}
    /\ runs = 0
    /\ calls = {}
    /\ limitations = <<>>
    /\ relevant = <<>>
    /\ intent = NoIntent
    /\ rootCause = NoRootCause
    /\ explanation = NoExplanation
    /\ result = NoResult

\* a caller calls analyze_bug(text, repo_path): limitations = []
AnalyzeBug_Call ==
    /\ pc \in {"idle", "done", "raised"}
    /\ runs < MaxRuns
    /\ \E text \in PipelineTexts : raw' = text
    /\ runs' = runs + 1
    /\ pc' = "parse"
    /\ errorInfo' = NoErrorInfo
    /\ raised' = ""
    /\ repoObj' = "None"
    /\ heap' = <<>>
    /\ commits' = <<>>
    /\ ret' = NoRet
    /\ nPrio' = 0
    /\ disk' = NoFiles
    /\ calls' = {}
    /\ limitations' = <<>>
    /\ relevant' = <<>>
    /\ intent' = NoIntent
    /\ rootCause' = NoRootCause
    /\ explanation' = NoExplanation
    /\ result' = NoResult
    /\ UNCHANGED <<repoKind, history, cacheOn, cache, sideVars>>

\* step 1: error_info = self.parse_error_message(error_message)
AnalyzeBug_Parse ==
    /\ pc = "parse"
    /\ LET r == ParseErrorMessage(raw)
       IN  /\ errorInfo' = r.info
           /\ raised' = r.exc
           /\ pc' = IF r.exc = "" THEN "validate" ELSE "raised"
    /\ calls' = calls \cup {"parse_error_message"}
    /\ UNCHANGED <<raw, repoKind, history, repoObj, heap, commits, ret, nPrio,
                   cacheOn, cache, runs, limitations, relevant, intent,
                   rootCause, explanation, result, disk, sideVars>>

\* step 2: GitAnalyzer(repo_path).validate_repository(), and the early
\* return when it fails
AnalyzeBug_Validate ==
    /\ pc = "validate"
    /\ LET v == ValidateRepository(repoKind, repoObj)
       IN  /\ repoObj' = v.obj
           /\ ret' = [NoRet EXCEPT !.op = "validate", !.ok = v.ok]
           /\ IF v.ok
              THEN pc' = "commits" /\ result' = result
              ELSE pc' = "done" /\ result' = InvalidRepoResult(errorInfo)
    /\ calls' = calls \cup {"validate_repository"}
    /\ UNCHANGED <<raw, errorInfo, raised, repoKind, history, heap, commits,
                   nPrio, cacheOn, cache, runs, limitations, relevant, intent,
                   rootCause, explanation, disk, sideVars>>

\* analyze_commits, prioritize_commits when the record has frames, and the
\* filter to relevance_score > 0
AnalyzeBug_Commits ==
    /\ pc = "commits"
    /\ \E outcome \in IterCommitsOutcomes(history) :
         LET r == AnalyzeCommits(repoKind, repoObj, history, max_commits,
                                 errorInfo, outcome)
             list == [i \in 1..Len(r.list) |-> i]
             frames == errorInfo.stack_trace
             p == IF frames # <<>>
                  THEN PrioritizeCommits(r.list, list,
                                         frames[Len(frames)].file_path)
                  ELSE [heap |-> r.list, list |-> list]
         IN  /\ repoObj' = r.obj
             /\ raised' = r.exc
             /\ ret' = [NoRet EXCEPT !.op = "analyze", !.limit = max_commits,
                                     !.outcome = outcome, !.exc = r.exc,
                                     !.list = list]
             /\ IF r.exc # ""
                THEN /\ pc' = "raised"
                     /\ calls' = calls \cup {"analyze_commits"}
                     /\ UNCHANGED <<heap, commits, nPrio, relevant>>
                ELSE /\ pc' = "intent"
                     /\ heap' = p.heap
                     /\ commits' = p.list
                     /\ nPrio' = IF frames # <<>> THEN 1 ELSE 0
                     /\ relevant' = RelevantCommits(p.list, p.heap)
                     /\ calls' = calls \cup {"analyze_commits"} \cup
                                 (IF frames # <<>> THEN {"prioritize_commits"}
                                  ELSE {})
    /\ UNCHANGED <<raw, errorInfo, repoKind, history, cacheOn, cache, runs,
                   limitations, intent, rootCause, explanation, result, disk,
                   sideVars>>

\* step 3: the extraction loop over error_info.affected_files
AnalyzeBug_Intent ==
    /\ pc = "intent"
    /\ LET files == errorInfo.affected_files
       IN  \E at \in FilesAround(files) :
             LET r == ExtractAll(files, at, 1,
                                 IntentInfo(<<>>, <<>>, <<>>, <<>>),
                                 limitations)
             IN  /\ disk' = at
                 /\ intent' = r.intent
                 /\ limitations' = r.limitations
                 /\ calls' = calls \cup (IF files # <<>>
                                         THEN {"extract_from_file"} ELSE {})
    /\ pc' = "cause"
    /\ UNCHANGED <<raw, errorInfo, raised, repoKind, history, repoObj, heap,
                   commits, ret, nPrio, cacheOn, cache, runs, relevant,
                   rootCause, explanation, result, sideVars>>

\* step 4: root_cause = self.identify_root_cause(relevant_commits, intent)
AnalyzeBug_RootCause ==
    /\ pc = "cause"
    /\ rootCause' = IdentifyRootCause(relevant, heap)
    /\ calls' = calls \cup {"identify_root_cause"}
    /\ pc' = "explain"
    /\ UNCHANGED <<raw, errorInfo, raised, repoKind, history, repoObj, heap,
                   commits, ret, nPrio, cacheOn, cache, runs, limitations,
                   relevant, intent, explanation, result, disk, sideVars>>

\* step 5: get_total_commit_count for the context, _generate_explanation,
\* and the return of the AnalysisResult
AnalyzeBug_Explain ==
    /\ pc = "explain"
    /\ \E count \in {"ok", "GitCommandError"} :
       \E fresh, hasKey, written \in BOOLEAN :
       \E outcome \in GeneratorOutcomes :
         LET env == [fresh |-> fresh, hasKey |-> hasKey,
                     outcome |-> outcome, written |-> written]
             g == GenerateExplanationStep(cacheOn, cache, errorInfo, relevant,
                                          intent, limitations, heap, env)
         IN  /\ ret' = [NoRet EXCEPT !.op = "explain",
                                     !.outcome = count,
                                     !.count = TotalCommitCount(history, count),
                                     !.hit = g.hit, !.key = g.key,
                                     !.generator = g.generator]
             /\ explanation' = g.explanation
             /\ limitations' = g.limitations
             /\ cache' = g.cache
             /\ calls' = calls \cup {"get_total_commit_count"} \cup g.calls
             /\ result' = AnalysisResult(errorInfo, rootCause, g.explanation,
                                         relevant, intent, g.limitations)
    /\ pc' = "done"
    /\ UNCHANGED <<raw, errorInfo, raised, repoKind, history, repoObj, heap,
                   commits, nPrio, cacheOn, runs, relevant, intent, rootCause,
                   disk, sideVars>>

Next ==
    \/ AnalyzeBug_Call
    \/ AnalyzeBug_Parse
    \/ AnalyzeBug_Validate
    \/ AnalyzeBug_Commits
    \/ AnalyzeBug_Intent
    \/ AnalyzeBug_RootCause
    \/ AnalyzeBug_Explain

Spec == Init /\ [][Next]_vars

---------------------------------------------------------------------------
(* Properties of the parser *)

AnyErrorLine(lines) ==
    \E i \in 1..Len(lines) : lines[i].k \in {"err", "simple"}

\* C3: parse_error_message is total: whatever the text, it returns a record
\* and raises nothing; the record's category is not empty, and it is
\* "UnknownError" when no line of the text is an error line.
C3_ParseIsTotal ==
    pc = "parsed" =>
        /\ raised = ""
        /\ errorInfo.error_type # ""
        /\ ~AnyErrorLine(raw) => errorInfo.error_type = "UnknownError"

\* the frame lines of a text, in order
RECURSIVE FrameLinesOf(_)
FrameLinesOf(text) ==
    IF text = <<>> THEN <<>>
    ELSE IF Head(text).k = "frame"
         THEN <<Head(text)>> \o FrameLinesOf(Tail(text))
         ELSE FrameLinesOf(Tail(text))

FirstIndex(x, xs) == CHOOSE i \in 1..Len(xs) : xs[i] = x /\ \A j \in 1..(i - 1) : xs[j] # x

\* xs without its repetitions, first occurrences in order
IsFirstSeenDedupe(ys, xs) ==
    /\ Range(ys) = Range(xs)
    /\ \A i, j \in 1..Len(ys) :
          i < j => ys[i] # ys[j] /\ FirstIndex(ys[i], xs) < FirstIndex(ys[j], xs)

Parsed == ParseErrorMessage(raw)

\* the error line it recognised
ErrorLineTaken == StripSplit(raw)[Parsed.errAt]

\* C24: whenever the parser recognises an error line, by either pattern and
\* on either path, the category of the record is the left part of that
\* line and its message is exactly the right part, the empty string
\* included.
C24_CategoryAndMessageOfErrorLine ==
    (pc = "parsed" /\ raised = "" /\ Parsed.errAt # 0) =>
        /\ errorInfo.error_type = ErrorLineTaken.cat
        /\ errorInfo.message = GroupMsg(ErrorLineTaken.msg)

\* C25: on the header path no line is used twice: a line taken as the
\* code_context of a frame is never the line the category and the message
\* are taken from.
C25_NoLineUsedTwice ==
    (pc = "parsed" /\ raised = "" /\ Parsed.path = "header") =>
        Parsed.errAt \notin Parsed.ctxAt

---------------------------------------------------------------------------
(* Properties of analyze_commits *)

\* the history can be read: the path holds a repository with a work tree
\* and git answers
HistoryReadable == repoKind = "valid" /\ ret.outcome # "GitCommandError"

\* C1: for a history of depth D and a limit L >= 1, analyze_commits returns
\* exactly min(D, L) records: the L most recent revisions, most recent
\* first.
C1_ReturnsMinOfDepthAndLimit ==
    (ret.op = "analyze" /\ HistoryReadable) =>
        /\ ret.exc = ""
        /\ Len(ret.list) = Min(Len(history), ret.limit)
        /\ \A i \in 1..Len(ret.list) : heap[ret.list[i]].hash = history[i].hash

\* no changed file and file of the set match by suffix either way or by
\* base name
NoPairMatches(changed, files) ==
    \A i \in 1..Len(changed) : \A f \in files :
        /\ ~EndsWith(changed[i], f)
        /\ ~EndsWith(f, changed[i])
        /\ BaseName(changed[i]) # BaseName(f)

\* C2 as stated: a returned revision whose changed files have no overlap
\* with the failure's referenced files has relevance score 0.
C2_ZeroOverlapWithReferencedFiles ==
    (ret.op = "analyze" /\ ret.exc = "") =>
        \A i \in 1..Len(ret.list) :
            NoPairMatches(heap[ret.list[i]].changed_files,
                          Range(errorInfo.affected_files))
            => heap[ret.list[i]].relevance_score = 0

\* C2, amended: a returned revision whose changed files have no overlap
\* with the failure's referenced files nor with the files of its frames has
\* relevance score 0, whatever its age and message.
C2_ZeroOverlapScoresZero ==
    (ret.op = "analyze" /\ ret.exc = "") =>
        \A i \in 1..Len(ret.list) :
            NoPairMatches(heap[ret.list[i]].changed_files,
                          Range(errorInfo.affected_files)
                          \cup Range(FramePaths(errorInfo.stack_trace)))
            => heap[ret.list[i]].relevance_score = 0

\* a returned revision without overlap that is recent and mentions a fix
C2_Witness ==
    /\ ret.op = "analyze"
    /\ ret.exc = ""
    /\ \E i \in 1..Len(ret.list) :
          /\ NoPairMatches(heap[ret.list[i]].changed_files,
                           Range(errorInfo.affected_files)
                           \cup Range(FramePaths(errorInfo.stack_trace)))
          /\ heap[ret.list[i]].timestamp <= 30
          /\ "fix" \in heap[ret.list[i]].message.kws
          /\ heap[ret.list[i]].relevance_score = 0

\* C10: analyze_commits returns an empty list and raises nothing when the
\* history cannot be accessed: the path is not a repository, or git fails
\* on an unreadable repository or a corrupt history.
C10_EmptyListWhenHistoryInaccessible ==
    (ret.op = "analyze"
     /\ (repoKind \in {"missing", "notrepo"} \/ ret.outcome = "GitCommandError")) =>
        ret.exc = "" /\ ret.list = <<>>

---------------------------------------------------------------------------
(* Properties of ranking and root-cause selection *)

NonIncreasing(list, h) ==
    \A i \in 1..(Len(list) - 1) :
        h[list[i]].relevance_score >= h[list[i + 1]].relevance_score

IsPermutation(a, b) ==
    /\ Len(a) = Len(b)
    /\ \A x \in Range(a) \cup Range(b) :
          Cardinality({i \in 1..Len(a) : a[i] = x})
          = Cardinality({i \in 1..Len(b) : b[i] = x})

IsMaxScore(x, list, h) ==
    \A i \in 1..Len(list) : h[list[i]].relevance_score <= h[x].relevance_score

\* the first object of the list, in list order, with the highest score
FirstMax(list, h) ==
    list[CHOOSE i \in 1..Len(list) :
            /\ IsMaxScore(list[i], list, h)
            /\ \A j \in 1..(i - 1) : ~IsMaxScore(list[j], list, h)]

\* C8: identify_root_cause returns no candidate for an empty list; for a
\* non-empty list it returns a candidate for the revision of highest score,
\* the first such in list order, with that score as confidence and a
\* description that holds its id and message.
C8_RootCauseIsFirstMaximum ==
    ret.op = "identify" =>
        IF commits = <<>> THEN ~ret.cause.present
        ELSE /\ ret.cause.present
             /\ ret.cause.commit = FirstMax(commits, heap)
             /\ ret.cause.confidence = heap[ret.cause.commit].relevance_score
             /\ ret.cause.description.hash = heap[ret.cause.commit].hash
             /\ ret.cause.description.message = heap[ret.cause.commit].message

\* the highest score is shared by the second and third revisions
C8_Witness ==
    /\ ret.op = "identify"
    /\ Len(commits) = 3
    /\ ret.cause.commit = commits[2]
    /\ heap[commits[3]].relevance_score = heap[commits[2]].relevance_score
    /\ heap[commits[1]].relevance_score < heap[commits[2]].relevance_score

\* C9: rank_commits_by_likelihood returns a permutation of its list in
\* non-increasing order of score, and leaves the list and the scores as
\* they were.
C9_RankIsSortedPermutation ==
    [][GRank => /\ IsPermutation(ret'.list, commits)
                /\ NonIncreasing(ret'.list, heap)
                /\ commits' = commits
                /\ heap' = heap]_vars

\* a list of three that ranking reorders
C9_Witness ==
    /\ ret.op = "rank"
    /\ Len(commits) = 3
    /\ ret.list # commits
    /\ ~NonIncreasing(commits, heap)

---------------------------------------------------------------------------
(* Properties of analyze_bug *)

\* C5: analyze_bug never propagates an exception to its caller: whatever
\* the text, the state of the repository (missing, not a repository, bare,
\* without commits, failing git commands), the source files and the
\* explanation generator, the call returns an AnalysisResult.
C5_AnalyzeBugNeverRaises == raised = "" /\ pc # "raised"

ValidationFails == ~ValidateRepository(repoKind, "None").ok

\* C6: when validate_repository fails, analyze_bug returns a result that
\* holds the parsed ErrorInfo and exactly one limitation, with no root
\* cause, no explanation, no relevant commits and no intent; scoring,
\* re-ranking, intent extraction, root-cause selection, the cache and the
\* generator are not invoked in that run.
C6_InvalidRepositoryReturnsEarly ==
    ValidationFails =>
        /\ calls \subseteq {"parse_error_message", "validate_repository"}
        /\ cache = {}
        /\ pc = "done" =>
              /\ result.present
              /\ result.error_info = ParseErrorMessage(raw).info
              /\ Len(result.limitations) = 1
              /\ ~result.root_cause.present
              /\ ~result.explanation.present
              /\ result.relevant_commits = <<>>
              /\ ~result.intent_info.present

\* a run on a trace ended at the failed validation
C6_Witness ==
    /\ ValidationFails
    /\ pc = "done"
    /\ result.present
    /\ result.error_info.stack_trace # <<>>
    /\ calls = {"parse_error_message", "validate_repository"}

\* C7: an AnalysisResult has a root cause exactly when some scored commit
\* has relevance_score > 0; the root cause then references a scored commit
\* whose score is the largest of all scored commits, and its confidence is
\* that score, hence > 0.
C7_RootCauseIffPositiveScore ==
    result.present =>
        LET scored == Range(commits)
            rc == result.root_cause
        IN  /\ rc.present <=> \E x \in scored : heap[x].relevance_score > 0
            /\ rc.present =>
                  /\ rc.commit \in scored
                  /\ \A x \in scored : heap[x].relevance_score
                                           <= heap[rc.commit].relevance_score
                  /\ rc.confidence = heap[rc.commit].relevance_score
                  /\ rc.confidence > 0

\* a result whose root cause was chosen over a commit that scores less
C7_Witness ==
    /\ result.present
    /\ result.root_cause.present
    /\ \E x \in Range(commits) :
          heap[x].relevance_score < result.root_cause.confidence

\* a result without root cause although commits were scored
C7_WitnessAbsent ==
    /\ result.present
    /\ ~result.root_cause.present
    /\ commits # <<>>

---------------------------------------------------------------------------
(* Properties of scoring *)

\* the pairs (changed file, file of the set) that match by suffix either
\* way or by base name
MatchingPairs(changed, files) ==
    {<<i, f>> \in (1..Len(changed)) \X files :
        ~NoPairMatches(<<changed[i]>>, {f})}

\* min(1.0, min(0.5, 0.15 n) + r + k) in hundredths, for n matching pairs,
\* an age in days and the set of keywords in the message
ExpectedScore(n, age, kws) ==
    LET o == IF 15 * n < 50 THEN 15 * n ELSE 50
        r == IF age <= 1 THEN 30 ELSE IF age <= 7 THEN 20
             ELSE IF age <= 30 THEN 10 ELSE 0
        k == IF kws \cap {"fix", "bug", "error", "patch", "hotfix",
                           "revert"} # {}
             THEN 10 ELSE 0
    IN  IF o + r + k < 100 THEN o + r + k ELSE 100

ScoreAsExpected(x, files) ==
    LET n == Cardinality(MatchingPairs(heap[x].changed_files, files))
    IN  n >= 1 =>
          heap[x].relevance_score =
              ExpectedScore(n, heap[x].timestamp, heap[x].message.kws)

\* C11 as stated: a revision with overlapCount >= 1, counted over the pairs
\* of a changed file and a referenced file, gets the score
\* min(1.0, min(0.5, 0.15 overlapCount) + r + k).
C11_ScoreFromReferencedFiles ==
    (ret.op = "analyze" /\ ret.exc = "") =>
        \A i \in 1..Len(ret.list) :
            ScoreAsExpected(ret.list[i], Range(errorInfo.affected_files))

\* C11, amended: the same with overlapCount counted over the pairs of a
\* changed file and a file that is a referenced file or the file of a frame.
C11_ScoreFormula ==
    (ret.op = "analyze" /\ ret.exc = "") =>
        \A i \in 1..Len(ret.list) :
            ScoreAsExpected(ret.list[i],
                            Range(errorInfo.affected_files)
                            \cup Range(FramePaths(errorInfo.stack_trace)))

\* a revision with more than three matching pairs, a week old, whose
\* message holds two keywords
C11_Witness ==
    /\ ret.op = "analyze"
    /\ ret.exc = ""
    /\ \E i \in 1..Len(ret.list) :
          LET c == heap[ret.list[i]]
          IN  /\ Cardinality(MatchingPairs(c.changed_files,
                     Range(errorInfo.affected_files)
                     \cup Range(FramePaths(errorInfo.stack_trace)))) > 3
              /\ c.timestamp = 7
              /\ Cardinality(c.message.kws) = 2
              /\ c.relevance_score = 80

---------------------------------------------------------------------------
(* Properties of re-ranking *)

\* C12: after analyze_commits and any number of prioritize_commits calls,
\* every relevance score lies between 0.0 and 1.0, and so does the
\* confidence of a root cause built from it.
C12_ScoresWithinUnitRange ==
    /\ \A x \in 1..Len(heap) :
          heap[x].relevance_score >= 0 /\ heap[x].relevance_score <= 100
    /\ (ret.op = "identify" /\ ret.cause.present) =>
          ret.cause.confidence >= 0 /\ ret.cause.confidence <= 100

\* path_a and path_b are equal, one ends with the other, or their base
\* names are equal
SamePath(a, b) ==
    a = b \/ ~NoPairMatches(<<a>>, {b})

MatchingFiles(c, file) ==
    {i \in 1..Len(c.changed_files) : SamePath(c.changed_files[i], file)}

\* C13: a call prioritize_commits(revisions, location) adds exactly 0.3,
\* once, to the score of every revision with a changed file that matches
\* location.file, leaves the other scores as they are and clamps nothing:
\* calls accumulate and a score may exceed 1.0.
C13_BonusAddedOnceUnclamped ==
    [][GPrioritize =>
         /\ Len(heap') = Len(heap)
         /\ \A x \in 1..Len(heap) :
               heap'[x].relevance_score =
                   heap[x].relevance_score
                   + (IF MatchingFiles(heap[x], ret'.file) # {} THEN 30
                      ELSE 0)]_vars

\* after two calls, a revision with several matching files is above 1.0
\* and a revision without matching file has the score it started with
C13_Witness ==
    /\ ret.op = "prioritize"
    /\ nPrio = 2
    /\ \E x \in 1..Len(heap) :
          /\ Cardinality(MatchingFiles(heap[x], ret.file)) >= 2
          /\ heap[x].relevance_score > 100
    /\ \E y \in 1..Len(heap) :
          /\ MatchingFiles(heap[y], ret.file) = {}
          /\ heap[y].relevance_score > 0
          /\ heap[y].relevance_score < 100

PositionIn(list, x) == CHOOSE i \in 1..Len(list) : list[i] = x

KeepsOrderOfEquals(out, in, h) ==
    \A i, j \in 1..Len(in) :
        (i < j /\ h[in[i]].relevance_score = h[in[j]].relevance_score)
        => PositionIn(out, in[i]) < PositionIn(out, in[j])

\* C14: prioritize_commits returns a permutation of its list in
\* non-increasing order of the updated scores, and revisions with equal
\* updated scores keep the order they had in the list.
C14_PrioritizeIsStableSort ==
    [][GPrioritize =>
         /\ IsPermutation(ret'.list, commits)
         /\ NonIncreasing(ret'.list, heap')
         /\ KeepsOrderOfEquals(ret'.list, commits, heap')]_vars

\* a call reordered three revisions, two of which share the top score
C14_Witness ==
    /\ ret.op = "prioritize"
    /\ Len(ret.list) = 3
    /\ ret.list # <<1, 2, 3>>
    /\ heap[ret.list[1]].relevance_score = heap[ret.list[2]].relevance_score
    /\ heap[ret.list[2]].relevance_score > heap[ret.list[3]].relevance_score

\* C15: once analyze_commits has made a record, its relevance score never
\* decreases through prioritize_commits, rank_commits_by_likelihood and
\* identify_root_cause, and no other field of it changes.
C15_ScoreNeverDecreases ==
    [][/\ Len(heap') = Len(heap)
       /\ \A x \in 1..Len(heap) :
             /\ heap'[x].relevance_score >= heap[x].relevance_score
             /\ [heap'[x] EXCEPT !.relevance_score = 0]
                = [heap[x] EXCEPT !.relevance_score = 0]]_vars

\* a record that went through all three operations: one revision gained
\* the bonus and another kept its positive score
C15_Witness ==
    /\ ret.op \in {"rank", "identify"}
    /\ nPrio >= 1
    /\ \E x, y \in 1..Len(heap) :
          /\ heap[x].relevance_score
             > ScoreOf(history[x], AffectedFiles(errorInfo))
          /\ heap[y].relevance_score
             = ScoreOf(history[y], AffectedFiles(errorInfo))
          /\ heap[y].relevance_score > 0

---------------------------------------------------------------------------
(* Properties of the steps of analyze_bug *)

\* C16: with or without frames, the relevant_commits that analyze_bug hands
\* to the generator and returns hold exactly the scored revisions with
\* relevance score > 0, in non-increasing order of score.
C16_RelevantCommitsRanked ==
    (result.present /\ ~ValidationFails) =>
        /\ result.relevant_commits = relevant
        /\ Range(relevant)
           = {x \in Range(commits) : heap[x].relevance_score > 0}
        /\ Cardinality(Range(relevant)) = Len(relevant)
        /\ NonIncreasing(relevant, heap)

GeneratorDown == ret.key = "absent" \/ ret.generator \in {"raises", "exhausted"}

IsLocal(e) == e.present /\ e.summary.kind \in {"basic", "fallback"}

\* C17: when the generator is unavailable (no API key, no client) or fails
\* (it raises, or every attempt fails), analyze_bug returns a locally
\* synthesized explanation and the limitations of the result hold an entry
\* that says so.
C17_GeneratorFailureIsReported ==
    (result.present /\ ret.op = "explain" /\ GeneratorDown) =>
        /\ IsLocal(result.explanation)
        /\ \E i \in 1..Len(result.limitations) :
              result.limitations[i].kind \in {"no_api_key", "ai_failed"}

\* the run is past its extraction loop
Extracted == pc \in {"cause", "explain"} \/ (pc = "done" /\ ~ValidationFails)

\* extract_from_file fails on the i-th referenced file
FailsAt(i) == ExtractFromFile(errorInfo.affected_files[i], disk).exc # ""

\* what the i-th referenced file gives to each list: nothing when its
\* extraction fails
PerFile(i) ==
    IF FailsAt(i) THEN IntentInfo(<<>>, <<>>, <<>>, <<>>)
    ELSE ExtractFromFile(errorInfo.affected_files[i], disk).intent

IsIntentFailure(n) == n.kind = "intent_failed"

\* C18: each of the four lists of the merged bundle is the concatenation of
\* the per-file lists in the order of the referenced files; a file whose
\* extraction fails gives nothing to them, adds one limitation that names
\* it, and the files after it are still extracted.
C18_MergedBundleIsConcatenation ==
    Extracted =>
        LET n == Len(errorInfo.affected_files)
            failed == SelectSeq([i \in 1..n |-> i], FailsAt)
        IN  /\ intent.docstring_intents
               = Concat([i \in 1..n |-> PerFile(i).docstring_intents])
            /\ intent.test_intents
               = Concat([i \in 1..n |-> PerFile(i).test_intents])
            /\ intent.comment_intents
               = Concat([i \in 1..n |-> PerFile(i).comment_intents])
            /\ intent.pattern_intents
               = Concat([i \in 1..n |-> PerFile(i).pattern_intents])
            /\ SelectSeq(limitations, IsIntentFailure)
               = [k \in 1..Len(failed) |->
                     Note("intent_failed", errorInfo.affected_files[failed[k]])]
            /\ pc = "done" => /\ result.intent_info = intent
                              /\ result.limitations = limitations

\* a finished run over two referenced files: extraction failed on the
\* first one, and the bundle holds what the second one gave
C18_Witness ==
    /\ pc = "done" /\ result.present
    /\ Len(errorInfo.affected_files) = 2
    /\ FailsAt(1) /\ ~FailsAt(2)
    /\ result.intent_info.comment_intents # <<>>
    /\ result.intent_info.comment_intents = PerFile(2).comment_intents
    /\ Note("intent_failed", errorInfo.affected_files[1])
           \in Range(result.limitations)

---------------------------------------------------------------------------
(* Properties of extract_from_file *)

IsEmptyBundle(b) ==
    /\ b.present
    /\ b.docstring_intents = <<>> /\ b.test_intents = <<>>
    /\ b.comment_intents = <<>> /\ b.pattern_intents = <<>>

\* C19: extract_from_file never raises, whatever the path and the content
\* of the file; for a missing path, a path that is no regular file and an
\* unreadable file it returns a bundle whose four lists are empty.
C19_ExtractNeverRaises ==
    (pc = "done" /\ ret.op = "extract_from_file") =>
        /\ ret.exc = ""
        /\ FileAt(disk, ret.file).kind \in {"missing", "dir", "unreadable"}
               => IsEmptyBundle(intent)

ReadsBadSyntax ==
    /\ pc = "done" /\ ret.op = "extract_from_file"
    /\ FileAt(disk, ret.file).kind = "file"
    /\ FileAt(disk, ret.file).parse = "syntax"

\* C20: when the source of a readable file does not parse, extract_from_file
\* returns no docstring intents and no pattern intents, the comment intents
\* are those that comment extraction yields on the raw text, and the test
\* intents are still those of an existing associated test file.
C20_BadSyntaxKeepsCommentsAndTests ==
    ReadsBadSyntax =>
        LET tp == TestPathOf(ret.file, disk)
            t == FileAt(disk, tp)
        IN  /\ ret.exc = "" /\ intent.present
            /\ intent.docstring_intents = <<>>
            /\ intent.pattern_intents = <<>>
            /\ intent.comment_intents
               = ExtractComments(ret.file, FileAt(disk, ret.file).lines)
            /\ (~StartsWithTest(ret.file) /\ t.kind # "missing") =>
                   intent.test_intents
                   = IF t.kind = "file" /\ t.parse = "ok"
                     THEN [i \in 1..t.tests |-> Intent("test", tp, i, "")]
                     ELSE <<>>

---------------------------------------------------------------------------
(* Properties of context_hash *)

RevisionIds(c) ==
    [i \in 1..Len(c.relevant_commits) |-> c.heap[c.relevant_commits[i]].hash]

\* the two contexts agree on the failure category, the message, the
\* referenced files and the ids of the relevant revisions
SameFour(a, b) ==
    /\ a.error_info.error_type = b.error_info.error_type
    /\ a.error_info.message = b.error_info.message
    /\ a.error_info.affected_files = b.error_info.affected_files
    /\ RevisionIds(a) = RevisionIds(b)

\* C21: context_hash is a function of the failure category, the message,
\* the referenced files and the ids of the relevant revisions alone: calls
\* on contexts that agree on the four give equal values, whatever the
\* frames, scores, diffs, intents and repository summary, and so do
\* repeated calls on one context.
C21_HashOfFourFields ==
    \A j, k \in 1..Len(hashes) :
        SameFour(contexts[hashes[j].of], contexts[hashes[k].of])
            => hashes[j].value = hashes[k].value

\* both contexts were hashed: they agree on the four fields and differ in
\* frames, scores, intents and repository summary
C21_Witness ==
    /\ Len(hashes) = 2 /\ hashes[1].of # hashes[2].of
    /\ SameFour(contexts[1], contexts[2])
    /\ contexts[1].error_info.stack_trace # contexts[2].error_info.stack_trace
    /\ contexts[1].heap # contexts[2].heap
    /\ contexts[1].intent_info # contexts[2].intent_info
    /\ contexts[1].repository_context # contexts[2].repository_context
    /\ contexts[1].relevant_commits # <<>>
    /\ hashes[1].value = hashes[2].value

---------------------------------------------------------------------------
(* Properties of the cache *)

\* the last call was get on the watched entry
GotWatched == ret.op = "get" /\ <<ret.type, ret.key>> = Watched

\* the last set on the watched entry is not older than ttl, and neither
\* invalidate nor clear nor cleanup_expired has removed the entry since
SetStands == calls.op = "set" /\ ~calls.removed /\ ret.at - calls.at <= ttl

GetRule ==
    LET old == FilesAt(cache, ret'.type, ret'.key)
    IN  /\ (\E f \in old : f.readable /\ clock - f.timestamp > ttl)
               => /\ ret'.value = None
                  /\ FilesAt(cache', ret'.type, ret'.key) = {}
        /\ ret'.value # None
               => \E f \in old : /\ f.readable /\ f.data = ret'.value
                                  /\ clock - f.timestamp <= ttl
                                  /\ f \in cache'

\* cleanup_expired removes the entries older than ttl and the unreadable
\* ones, no other, and returns their number
CleanupRule ==
    /\ cache' = {f \in cache : f.readable /\ clock - f.timestamp <= ttl}
    /\ ret'.count = Cardinality(cache \ cache')

\* once the last set is older than ttl, get returns None and no entry is
\* left
StaysExpired ==
    (GotWatched /\ calls.op = "set" /\ ret.at - calls.at > ttl)
        => /\ ret.value = None
           /\ \A f \in FilesAt(cache, ret.type, ret.key) : ~f.readable

\* C23: get never returns an entry older than ttl: it returns None and
\* deletes the entry, and so does every later get until a new set;
\* cleanup_expired removes exactly the entries older than ttl and the
\* unreadable ones, and returns how many it removed.
C23_ExpiredEntriesGo ==
    /\ []StaysExpired
    /\ [][(CGet => GetRule) /\ (CCleanup => CleanupRule)]_vars

\* get has met the watched entry, written more than one ttl ago: it
\* returned None and the file is gone
C23_Witness ==
    /\ GotWatched /\ calls.op = "set" /\ calls.opened
    /\ JsonEncodable(calls.v) /\ ~calls.removed
    /\ ret.at - calls.at > ttl
    /\ ret.value = None
    /\ FilesAt(cache, ret.type, ret.key) = {}

---------------------------------------------------------------------------
(* Properties of re-ranking within analyze_bug *)

\* a scored revision none of whose changed files overlaps a file the
\* failure refers to
ZeroOverlap(x) ==
    ~FilesOverlap(heap[x].changed_files, AffectedFiles(errorInfo))

\* C26: within analyze_bug, re-ranking by the location of the deepest frame
\* gives its bonus only to revisions that overlap the files the failure
\* refers to: after it every zero-overlap revision still has relevance
\* score 0, is not among the relevant commits and is not the root cause.
C26_ZeroOverlapStaysZero ==
    "prioritize_commits" \in calls =>
        \A x \in Range(commits) :
            ZeroOverlap(x) =>
                /\ heap[x].relevance_score = 0
                /\ x \notin Range(relevant)
                /\ rootCause.present => rootCause.commit # x
                /\ (result.present /\ result.root_cause.present)
                       => result.root_cause.commit # x

\* a finished run in which re-ranking gave its bonus to the revision that
\* became the root cause while a zero-overlap revision was scored beside it
C26_Witness ==
    /\ "prioritize_commits" \in calls
    /\ result.present
    /\ result.root_cause.present
    /\ \E x \in Range(commits) : ZeroOverlap(x)
    /\ \E y \in Range(commits) :
          /\ ~ZeroOverlap(y)
          /\ HasMatchingFile(heap[y].changed_files,
                             errorInfo.stack_trace[
                                 Len(errorInfo.stack_trace)].file_path)
          /\ result.root_cause.commit = y

---------------------------------------------------------------------------
(* Properties of the explanation *)

\* the explanation of the result was synthesized locally by this call
LocalNow == result.present /\ ~ret.hit /\ IsLocal(result.explanation)

\* C27: when analyze_bug returns a locally synthesized explanation together
\* with a root-cause candidate, the revision named in the root-cause text of
\* the explanation is the revision the candidate refers to, the top-ranked
\* relevant revision.
C27_LocalTextNamesRootCause ==
    (LocalNow /\ result.root_cause.present) =>
        /\ result.explanation.root_cause.kind = "related"
        /\ result.explanation.root_cause.hash
               = result.root_cause.description.hash
        /\ \A x \in Range(relevant) :
               heap[x].relevance_score <= result.root_cause.confidence

\* the same for the runs whose failure has frames, where the relevant
\* revisions were re-ranked before the text was written
C27_WithFrames ==
    "prioritize_commits" \in calls => C27_LocalTextNamesRootCause

\* the entry that answered the cache hit of the finished run
HitEntries == CacheEntries(cache, ContextHash(errorInfo, relevant, heap))

\* C28: on a cache hit _generate_explanation returns an explanation whose
\* every field (summary, root-cause text, intent-vs-actual text, commit
\* references, fix suggestions, educational notes) equals that field of the
\* explanation returned when the entry was stored under the same hash.
C28_HitReturnsStoredExplanation ==
    (result.present /\ ret.hit) =>
        /\ HitEntries # {}
        /\ \A e \in HitEntries :
              /\ explanation.summary = e.returned.summary
              /\ explanation.root_cause = e.returned.root_cause
              /\ explanation.intent_vs_actual = e.returned.intent_vs_actual
              /\ explanation.commit_references = e.returned.commit_references
              /\ explanation.fix_suggestions = e.returned.fix_suggestions
              /\ explanation.educational_notes = e.returned.educational_notes

\* the same without the fix suggestions, which are not stored
C28_ExceptFixSuggestions ==
    (result.present /\ ret.hit) =>
        /\ HitEntries # {}
        /\ \A e \in HitEntries :
              explanation
                  = [e.returned EXCEPT !.fix_suggestions = <<>>]

\* C29: an explanation is written to the cache only when it came from a
\* successful generator response: a locally synthesized one (no API key,
\* generator exception, every attempt failed) is never stored, so no later
\* analyze_bug call with the same context hash is served one from the cache.
C29_NoLocalExplanationCached ==
    /\ \A e \in cache : ~IsLocal(e.returned) /\ ~IsLocal(FromCache(e.data))
    /\ (result.present /\ ret.hit) => ~IsLocal(explanation)

\* the same for the explanations of _basic_explanation alone (no API key,
\* generator exception)
C29_NoBasicExplanationCached ==
    /\ \A e \in cache : e.data.summary.kind # "basic"
    /\ (result.present /\ ret.hit) => explanation.summary.kind # "basic"

---------------------------------------------------------------------------
(* Properties of _call_api *)

Returned == api.status \in {"returned", "done"}

\* the attempts made so far that failed (all but an answering last one)
Failed ==
    IF api.value \in Answers THEN api.attempts - 1 ELSE api.attempts

AttemptsBounded ==
    /\ api.attempts = Len(api.outcomes)
    /\ api.attempts <= api.max_retries + 1

\* one sleep of 2^(k+1) seconds after failed attempt k, but none after
\* attempt max_retries, the last
WaitsBetweenAttempts ==
    api.slept = [k \in 1..Min(Failed, api.max_retries) |-> 2 ^ k]

\* the first answer is returned; None is returned when all attempts failed
ReturnsFirstAnswer ==
    Returned =>
        /\ \A k \in 1..Failed : api.outcomes[k] \notin Answers
        /\ IF api.value = "None"
           THEN Failed = api.max_retries + 1
           ELSE /\ api.value \in Answers
                /\ api.outcomes[api.attempts] = api.value

FallbackWhenNone ==
    (api.status = "done" /\ api.value = "None") =>
        explanation = FallbackExplanation(contexts[1].error_info,
                                          contexts[1].relevant_commits,
                                          contexts[1].heap)

\* C30: _call_api always terminates without raising: it makes at most
\* max_retries + 1 attempts, returns the first successful response without
\* a further attempt, waits 2^(k+1) seconds only between failed attempt k
\* (from 0) and the next attempt and never after the last, and returns None
\* when every attempt fails; generate_explanation then returns the fallback
\* explanation.
C30_CallApiTerminates ==
    /\ [](/\ raised = ""
          /\ AttemptsBounded
          /\ WaitsBetweenAttempts
          /\ ReturnsFirstAnswer
          /\ FallbackWhenNone)
    /\ [][Returned => /\ api'.attempts = api.attempts
                      /\ api'.slept = api.slept
                      /\ api'.value = api.value]_vars
    /\ <>(api.status = "done")

\* a call in which all three attempts failed, with sleeps of 2 and 4 seconds
\* and none after the third, that ended in the fallback explanation
C30_Witness ==
    /\ api.status = "done"
    /\ api.max_retries = 2
    /\ api.attempts = 3
    /\ api.value = "None"
    /\ api.slept = <<2, 4>>
    /\ explanation.summary.kind = "fallback"

\* a call that returned the answer of its second attempt after one sleep
C30_WitnessAnswer ==
    /\ api.status = "done"
    /\ api.max_retries = 2
    /\ api.attempts = 2
    /\ api.value = "structured"
    /\ api.slept = <<2>>
    /\ explanation.summary.kind = "ai"

=============================================================================
